---- MODULE Spec2Model ----
(***************************************************************************)
(* A model of the ONVIF device session of node-onvif                       *)
(* (lib/modules/device.js and the services it drives).                     *)
(*                                                                         *)
(* Spec        : the session from its constructor, driven by init() runs;  *)
(*               every device response is an input.                        *)
(* SpecSession : a session on which init() has resolved, driven by one     *)
(*               client task that awaits each profile-scoped imaging or    *)
(*               encoder operation, and by changeProfile(), the PTZ calls  *)
(*               and fetchSnapshot() at any time.                          *)
(* SpecOverlap : the same session driven by two client tasks whose scoped  *)
(*               operations overlap.                                       *)
(* SpecProfiles: init() from its GetProfiles request, against responses    *)
(*               whose profiles have any shape; SpecStreams adds that      *)
(*               every GetStreamUri request completes.                     *)
(* SpecSelect  : changeProfile(), getCurrentProfile(), the PTZ calls and   *)
(*               fetchSnapshot() on constructed, rejected and initialised  *)
(*               sessions.                                                 *)
(* SpecSoap    : one service and the codec and transport of                *)
(*               lib/modules/soap.js: setAuth(), createRequestSoap() and   *)
(*               requests through requestCommand(), with every response,   *)
(*               error and timeout of the HTTP client as an input.         *)
(* SpecSnapshot: _mediaGetSnapshotUri(), changeProfile() and               *)
(*               fetchSnapshot() on constructed and initialised sessions.  *)
(*                                                                         *)
(* One action is one turn of the JavaScript event loop: the handler of a   *)
(* call or of an I/O completion together with the promise continuations it *)
(* triggers, up to the next request that is handed to the network.         *)
(***************************************************************************)
EXTENDS Integers, Sequences, FiniteSets, TLC

\* ------------------------------------------------------------------------
\* Bounds of the model
\* ------------------------------------------------------------------------
\* init() is called at most this many times on one session
MaxInits == 2
\* a GetProfiles response carries at most this many profiles
MaxProfiles == 2
\* the device fails at most this many GetStreamUri requests
MaxStreamFaults == 1
\* at most this many scoped operations overlap in one busy period
MaxOverlap == 2

\* ------------------------------------------------------------------------
\* Values
\* ------------------------------------------------------------------------
Null == "null"

ServiceNames == {"events", "imaging", "media", "ptz"}

\* ['UDP', 'HTTP', 'RTSP'] of _mediaGetStreamURI
protocol_list == <<"UDP", "HTTP", "RTSP">>

\* clock offsets the Device service can have measured (getTimeDiff())
TimeDiffs == {3}

Manufacturers == {"Acme"}

\* the host a device reports in its stream URIs, and the configured address
DeviceHost == "10.0.0.5"
Address == "192.0.2.10"

\* '' : an unresolved stream URI
EmptyUri == [scheme |-> "", host |-> "", path |-> <<>>]

\* the URI the device reports for a profile token and a protocol
ReportedUri(token, protocol) ==
    [scheme |-> "rtsp:", host |-> DeviceHost, path |-> <<"/", token, protocol>>]

\* the value of a property that is not there, and the result of parseFloat:
\* a number or NaN
Undefined == "undefined"
NaN == [nan |-> TRUE, v |-> 0]
Num(n) == [nan |-> FALSE, v |-> n]
\* x || '' for a text that may not be there
OrEmpty(x) == IF x = Undefined THEN "" ELSE x

\* parseFloat(text) for the texts a range element carries
ParseFloat(text) ==
    CASE text = "-1" -> Num(-1)
      [] text = "0" -> Num(0)
      [] text = "1" -> Num(1)
      [] text = "2" -> Num(2)
      [] OTHER -> NaN

\* An XRange/YRange element of a PTZConfiguration: not there, there but
\* empty (parsed as ''), or there with Min and Max texts
AbsentRange == [kind |-> "absent", Min |-> Undefined, Max |-> Undefined]
EmptyRange == [kind |-> "empty", Min |-> Undefined, Max |-> Undefined]
RangeElements ==
    {AbsentRange, EmptyRange,
     [kind |-> "range", Min |-> "-1", Max |-> "1"],
     [kind |-> "range", Min |-> "abc", Max |-> "2"]}

\* PanTiltLimits and ZoomLimits of a PTZConfiguration (present or not, with
\* the elements of their Range), and the PTZConfiguration itself
PanTiltLimitsElements ==
    [present : {TRUE}, XRange : RangeElements, YRange : RangeElements]
        \cup {[present |-> FALSE, XRange |-> AbsentRange,
                YRange |-> AbsentRange]}
ZoomLimitsElements ==
    [present : {TRUE}, XRange : RangeElements]
        \cup {[present |-> FALSE, XRange |-> AbsentRange]}
NoPTZ ==
    [present |-> FALSE,
     PanTiltLimits |-> [present |-> FALSE, XRange |-> AbsentRange,
                        YRange |-> AbsentRange],
     ZoomLimits |-> [present |-> FALSE, XRange |-> AbsentRange]]
PTZConfigurations ==
    [present : {TRUE}, PanTiltLimits : PanTiltLimitsElements,
     ZoomLimits : ZoomLimitsElements] \cup {NoPTZ}

\* which configurations an entry of a GetProfiles response carries
Parts ==
    {"VideoSourceConfiguration", "VideoEncoderConfiguration",
     "AudioSourceConfiguration", "AudioEncoderConfiguration"}
Shape(parts, ptz) ==
    [VideoSourceConfiguration |-> "VideoSourceConfiguration" \in parts,
     VideoEncoderConfiguration |-> "VideoEncoderConfiguration" \in parts,
     AudioSourceConfiguration |-> "AudioSourceConfiguration" \in parts,
     AudioEncoderConfiguration |-> "AudioEncoderConfiguration" \in parts,
     PTZConfiguration |-> ptz]

\* the entry with token i and the given shape; a VideoEncoderConfiguration
\* is H264
Shaped(i, shape) ==
    [token |-> i,
     VideoSourceConfiguration |-> shape.VideoSourceConfiguration,
     VideoEncoderConfiguration |-> shape.VideoEncoderConfiguration,
     Encoding |-> "H264",
     AudioSourceConfiguration |-> shape.AudioSourceConfiguration,
     AudioEncoderConfiguration |-> shape.AudioEncoderConfiguration,
     PTZConfiguration |-> shape.PTZConfiguration]

\* The i-th entry of a GetProfiles response.  Entries with an odd token carry
\* a VideoEncoderConfiguration (H264), the others do not; all carry a video
\* source and neither audio nor PTZ.
RawProfile(i) ==
    Shaped(i, Shape(IF i % 2 = 1
                    THEN {"VideoSourceConfiguration",
                          "VideoEncoderConfiguration"}
                    ELSE {"VideoSourceConfiguration"}, NoPTZ))

\* ------------------------------------------------------------------------
\* Device responses (inputs)
\* ------------------------------------------------------------------------
TimeResponses == [error : {TRUE}, diff : {0}] \cup [error : {FALSE}, diff : TimeDiffs]

\* the sets of services a Capabilities structure can carry an XAddr for
XAddrSets ==
    {{}, {"media"}, {"media", "ptz"}, {"media", "imaging", "events"},
     ServiceNames}

\* GetCapabilities: a transport error or fault, a response without a
\* Capabilities structure, or Capabilities with an XAddr for some services
CapabilitiesResponses ==
    [kind : {"error", "nocaps"}, XAddr : {{}}]
        \cup [kind : {"ok"}, XAddr : XAddrSets]

InformationResponses ==
    [error : {TRUE}, Manufacturer : {Null}]
        \cup [error : {FALSE}, Manufacturer : Manufacturers]

\* GetProfiles of a device with n profiles: an error, a response without
\* Profiles element ("missing": undefined), an empty Profiles element
\* ("empty": the parser's ''), or the list of its n profiles, whose tokens
\* are distinct
ProfilesResponses(n) ==
    [kind : {"error", "missing", "empty"}, Profiles : {<<>>}]
        \cup {[kind |-> "list", Profiles |-> [i \in 1..n |-> RawProfile(i)]]}

\* the shapes of a response entry: every combination of configurations
\* without PTZ, and every PTZConfiguration
ProfileShapes ==
    {Shape(parts, NoPTZ) : parts \in SUBSET Parts}
        \cup {Shape(Parts, ptz) : ptz \in PTZConfigurations}

\* GetProfiles responses with n profiles of which one has any shape
ShapedResponses(n) ==
    {[kind |-> "list",
      Profiles |-> [i \in 1..n |-> IF i = k THEN Shaped(i, shape)
                                   ELSE RawProfile(i)]] :
        k \in 1..n, shape \in ProfileShapes}

StreamResponses == {"error", "ok"}

\* ------------------------------------------------------------------------
\* State
\* ------------------------------------------------------------------------
VARIABLES
    deviceProfiles,   \* the number of media profiles the device has
    keepAddr,         \* this.keepAddr: constructed from an address (pinning)
    time_diff,        \* this.time_diff
    information,      \* this.information (Null or the manufacturer reported)
    services,         \* this.services[k] # null, for k in ServiceNames
    profile_list,     \* this.profile_list
    current_profile,  \* this.current_profile: 0 for null, else the index
                      \* in profile_list of the object it points to
    ptz_moving,       \* this.ptz_moving
    ini,              \* the init() run: position, closure variables, record
    runs,             \* number of init() calls made
    wire,             \* requests of init() that are in flight
    sent,             \* requests issued by the current init() run, in order
    streamFaults,     \* GetStreamUri failures so far
    calls,            \* per caller: the scoped operation it has in flight
    last,             \* the operation that settled in the last step, if any
    obs,              \* what the call made in the last step observed, if any
    selected,         \* the profile the caller selected (init, changeProfile)
    busy,             \* record of the current period of overlapping calls
    soap,             \* a service, the clock and its request through soap.js
    snap,             \* the _mediaGetSnapshotUri() run: position, profile_index
    auth              \* this.user and this.pass, and the user and pass of
                      \* each service of this.services that is not null

sessVars == <<keepAddr, time_diff, information, services, profile_list,
              current_profile, ptz_moving>>
initVars == <<deviceProfiles, ini, runs, wire, sent, streamFaults>>
opVars == <<calls, last, obs, selected, busy, soap, snap, auth>>
vars == <<sessVars, initVars, opVars>>

\* ------------------------------------------------------------------------
\* The constructor
\* ------------------------------------------------------------------------
IdleRun ==
    [pc |-> "idle", profile_index |-> 0, protocol_index |-> 0,
     err |-> "", settled |-> 0,
     time |-> "none", capsSeen |-> FALSE, XAddr |-> {},
     profiles |-> "none", raw |-> <<>>, fatal |-> "none"]

OnvifDevice ==
    /\ keepAddr \in BOOLEAN
    /\ time_diff = 0
    /\ information = Null
    /\ services = [k \in ServiceNames |-> FALSE]
    /\ profile_list = <<>>
    /\ current_profile = 0
    /\ ptz_moving = FALSE

\* the two client tasks that use one session; each awaits its call
Callers == {"A", "B"}

\* one running operation: its position and the variables of its closure
\* (profileIndex, originalProfile, and originalProfile of the nested
\* getImagingSettings of setImagingSettings)
NoInst ==
    [op |-> "none", pc |-> "idle", idx |-> 0, orig |-> 0, inner |-> 0,
     failed |-> {}]

\* a caller without an operation in flight; atCall is the profile that was
\* current when the caller made its call, tasks are the operations that
\* getCameraCapabilities awaits
NoCall == [inst |-> NoInst, atCall |-> 0, tasks |-> <<>>]
\* what the last step settled, what the last step's call observed, and
\* the record of a period in which calls overlapped
NoEvent == [op |-> "none", res |-> "", idx |-> 0, atCall |-> 0, err |-> ""]
NoObs ==
    [op |-> "none", res |-> "", seen |-> 0, during |-> 0, ret |-> <<>>,
     cmds |-> <<>>]
NotBusy ==
    [n |-> 0, base |-> 0, firstBy |-> "", firstSel |-> 0, firstDone |-> FALSE]

\* a session without credentials and without services
NoAuth ==
    [user |-> "", pass |-> "", held |-> [k \in ServiceNames |-> <<>>]]

\* a Body without children
NoBody == [Fault |-> <<>>, key |-> "none"]

\* no _mediaGetSnapshotUri() is running
NoSnap == [pc |-> "idle", profile_index |-> 0]

\* a service without credentials and without a request
NoSoap ==
    [user |-> "", pass |-> "", now |-> 0, calls |-> 0,
     pc |-> "idle", method |-> "", info |-> "undefined",
     params |-> [user |-> "", pass |-> ""],
     envelope |-> [threw |-> FALSE, header |-> <<>>, body |-> ""],
     drawn |-> 0, path |-> "", requests |-> 0, timedOut |-> FALSE,
     status |-> 0, result |-> [kind |-> "none", body |-> NoBody],
     fault |-> [obj |-> FALSE, parts |-> <<>>],
     settles |-> 0,
     outcome |-> [kind |-> "pending", error |-> "", message |-> <<>>,
                  data |-> <<>>],
     handlers |-> "none", callbacks |-> <<>>]

NoOps ==
    /\ calls = [c \in Callers |-> NoCall]
    /\ last = NoEvent
    /\ obs = NoObs
    /\ busy = NotBusy
    /\ soap = NoSoap
    /\ snap = NoSnap
    /\ auth = NoAuth

Init ==
    /\ OnvifDevice
    /\ NoOps
    /\ selected = 0
    /\ ini = IdleRun
    /\ runs = 0
    /\ wire = <<>>
    /\ sent = <<>>
    /\ streamFaults = 0
    /\ deviceProfiles \in 1..MaxProfiles

\* ------------------------------------------------------------------------
\* Requests
\* ------------------------------------------------------------------------
Req(cmd) == [cmd |-> cmd, token |-> 0, protocol |-> ""]
StreamReq(token, protocol) ==
    [cmd |-> "GetStreamUri", token |-> token, protocol |-> protocol]

\* (variant: the next request is sent without awaiting the previous one)
AnswerWithoutAwait(r) ==
    /\ wire' = Append(wire, r)
    /\ sent' = Append(sent, r)

\* the response of the request at the head of the wire arrived, and the
\* handler hands request r to the network
Answer(r) ==
    /\ wire' = Append(Tail(wire), r)
    /\ sent' = Append(sent, r)

\* the response arrived and nothing is issued
AnswerOnly ==
    /\ wire' = Tail(wire)
    /\ UNCHANGED sent

Pending(cmd) == wire # <<>> /\ Head(wire).cmd = cmd

\* reject(error) / resolve(info) of the init() promise
Reject(run, step, e) ==
    [run EXCEPT !.pc = "rejected", !.err = e, !.fatal = step,
                !.settled = @ + 1]
Resolve(run) ==
    [run EXCEPT !.pc = "resolved", !.settled = @ + 1]

\* ------------------------------------------------------------------------
\* Helpers of the init() steps
\* ------------------------------------------------------------------------
\* protocol.toLowerCase()
ToLowerCase(protocol) ==
    CASE protocol = "UDP" -> "udp"
      [] protocol = "HTTP" -> "http"
      [] protocol = "RTSP" -> "rtsp"

\* the range every axis starts with
ZeroRange == [min |-> Num(0), max |-> Num(0)]

\* one try block of the PTZ part: limits.Range.<element> is read, then min
\* and max are assigned; a TypeError on the way leaves the axis as it was
ReadRange(limits, element, axis) ==
    IF ~limits.present \/ element.kind = "absent"
    THEN axis
    ELSE [min |-> ParseFloat(element.Min), max |-> ParseFloat(element.Max)]

\* (variant: the three axes are read in one try block, so the first
\* TypeError ends the reading)
PtzRangeOneTry(ptz) ==
    LET pt == ptz.PanTiltLimits
        zl == ptz.ZoomLimits
        xOk == pt.present /\ pt.XRange.kind # "absent"
        yOk == xOk /\ pt.YRange.kind # "absent"
    IN  [x |-> IF ptz.present THEN ReadRange(pt, pt.XRange, ZeroRange)
               ELSE ZeroRange,
         y |-> IF ptz.present /\ xOk THEN ReadRange(pt, pt.YRange, ZeroRange)
               ELSE ZeroRange,
         z |-> IF ptz.present /\ yOk THEN ReadRange(zl, zl.XRange, ZeroRange)
               ELSE ZeroRange]

\* profile.ptz.range after the PTZ part of the forEach body
PtzRange(ptz) ==
    IF ~ptz.present
    THEN [x |-> ZeroRange, y |-> ZeroRange, z |-> ZeroRange]
    ELSE [x |-> ReadRange(ptz.PanTiltLimits, ptz.PanTiltLimits.XRange,
                          ZeroRange),
          y |-> ReadRange(ptz.PanTiltLimits, ptz.PanTiltLimits.YRange,
                          ZeroRange),
          z |-> ReadRange(ptz.ZoomLimits, ptz.ZoomLimits.XRange, ZeroRange)]

\* (variant: the profile is built with the snapshot URI of its token)
NormalizeProfileWithSnapshot(p) ==
    [token |-> p.token,
     snapshot |-> [scheme |-> "http:", host |-> DeviceHost,
                   path |-> <<"/", p.token, "jpg">>],
     stream |-> [q \in {"udp", "http", "rtsp"} |-> EmptyUri],
     video_source |-> IF p.VideoSourceConfiguration THEN p.token ELSE 0,
     video_encoder |-> IF p.VideoEncoderConfiguration THEN p.token ELSE 0,
     video_encoding |-> IF p.VideoEncoderConfiguration THEN p.Encoding
                        ELSE "",
     audio_source |-> IF p.AudioSourceConfiguration THEN p.token ELSE 0,
     audio_encoder |-> IF p.AudioEncoderConfiguration THEN p.token ELSE 0,
     ptz_range |-> PtzRange(p.PTZConfiguration)]

\* the profile object _mediaGetProfiles builds from a response entry p;
\* a configuration is held by its token (the profile's here), 0 for null
NormalizeProfile(p) ==
    [token |-> p.token,
     snapshot |-> EmptyUri,
     stream |-> [q \in {"udp", "http", "rtsp"} |-> EmptyUri],
     video_source |-> IF p.VideoSourceConfiguration THEN p.token ELSE 0,
     video_encoder |-> IF p.VideoEncoderConfiguration THEN p.token ELSE 0,
     video_encoding |-> IF p.VideoEncoderConfiguration THEN p.Encoding
                        ELSE "",
     audio_source |-> IF p.AudioSourceConfiguration THEN p.token ELSE 0,
     audio_encoder |-> IF p.AudioEncoderConfiguration THEN p.token ELSE 0,
     ptz_range |-> PtzRange(p.PTZConfiguration)]

\* (variant: entries without a video encoder are skipped)
PushComplete(list, profiles) ==
    LET Complete(p) == p.VideoEncoderConfiguration
        kept == SelectSeq(profiles, Complete)
    IN  list \o [i \in 1..Len(kept) |-> NormalizeProfile(kept[i])]

\* profiles.forEach((p) => { ...; this.profile_list.push(profile); })
PushProfiles(list, profiles) ==
    list \o [i \in 1..Len(profiles) |-> NormalizeProfile(profiles[i])]

\* (variant: the profile pushed last becomes the current one)
LastIfNone(cur, list, profiles) ==
    IF cur = 0 /\ Len(profiles) > 0 THEN Len(list) + Len(profiles) ELSE cur

\* if (!this.current_profile) this.current_profile = profile, in the forEach
FirstIfNone(cur, list, profiles) ==
    IF cur = 0 /\ Len(profiles) > 0 THEN Len(list) + 1 ELSE cur

\* (variant: if (profiles === undefined), which lets '' through)
NoProfilesUndefinedOnly(resp) == resp.kind = "missing"

\* if (!profiles) of _mediaGetProfiles: undefined and '' are falsy
NoProfiles(resp) == resp.kind \in {"missing", "empty"}

\* this.user = params['user'] || '' of a service constructor, and of
\* setAuth(user, pass) of a service and of the session
Credentials(user, pass) == [user |-> OrEmpty(user), pass |-> OrEmpty(pass)]

\* (variant: the services are constructed without user and pass)
NewCredentialsEmpty(held, XAddr, user, pass) ==
    [k \in ServiceNames |->
        IF k \in XAddr THEN <<Credentials("", "")>> ELSE held[k]]

\* the user and pass of the services after _getCapabilities has seen
\* Capabilities c: a service it constructs gets this.user and this.pass
NewCredentials(held, XAddr, user, pass) ==
    [k \in ServiceNames |->
        IF k \in XAddr THEN <<Credentials(user, pass)>> ELSE held[k]]

\* the services after _getCapabilities has seen Capabilities c
NewServices(svc, XAddr) ==
    [k \in ServiceNames |-> IF k \in XAddr THEN TRUE ELSE svc[k]]

\* time_diff after the GetSystemDateAndTime callback
NewTimeDiff(diff, resp) ==
    IF ~resp.error THEN resp.diff ELSE diff

\* _getUri(directUri)
GetUri(keep, directUri) ==
    IF ~keep THEN directUri
    ELSE [scheme |-> "", host |-> Address, path |-> <<"/">> \o directUri.path]

\* (variant: the URI is stored on the first profile of the list)
StoreUriOnFirst(list, i, q, uri) ==
    [list EXCEPT ![1].stream[q] = uri]

\* this.profile_list[profile_index]['stream'][protocol.toLowerCase()] = uri
StoreUri(list, i, q, uri) ==
    [list EXCEPT ![i].stream[q] = uri]

\* (variant: the last protocol of the list is never requested)
StreamStepWithoutLast(list, pi, qi) ==
    IF pi + 1 <= Len(list)
    THEN IF qi + 1 <= Len(protocol_list) - 1
         THEN [done |-> FALSE, profile_index |-> pi, protocol_index |-> qi]
         ELSE IF pi + 2 <= Len(list)
              THEN [done |-> FALSE, profile_index |-> pi + 1,
                    protocol_index |-> 0]
              ELSE [done |-> TRUE, profile_index |-> pi + 1,
                    protocol_index |-> 0]
    ELSE [done |-> TRUE, profile_index |-> pi, protocol_index |-> qi]

\* the closure getStreamUri() of _mediaGetStreamURI, from the indices
\* (pi, qi): the indices of the next request, or done when it resolves
RECURSIVE StreamStep(_, _, _)
StreamStep(list, pi, qi) ==
    IF pi + 1 <= Len(list)
    THEN IF qi + 1 <= Len(protocol_list)
         THEN [done |-> FALSE, profile_index |-> pi, protocol_index |-> qi]
         ELSE StreamStep(list, pi + 1, 0)
    ELSE [done |-> TRUE, profile_index |-> pi, protocol_index |-> qi]

\* ------------------------------------------------------------------------
\* init(): one action per call and per response handler
\* ------------------------------------------------------------------------
InitRunning == ini.pc \in {"time", "caps", "info", "profiles", "streams"}

\* init() is called: _getSystemDateAndTime sends its request
InitCall ==
    /\ ~InitRunning
    /\ runs < MaxInits
    /\ runs' = runs + 1
    /\ ini' = [IdleRun EXCEPT !.pc = "time"]
    /\ wire' = <<Req("GetSystemDateAndTime")>>
    /\ sent' = <<Req("GetSystemDateAndTime")>>
    /\ UNCHANGED <<sessVars, streamFaults, deviceProfiles, opVars>>

\* the GetSystemDateAndTime callback, then _getCapabilities
GetSystemDateAndTimeDone(resp) ==
    /\ ini.pc = "time"
    /\ Pending("GetSystemDateAndTime")
    /\ time_diff' = NewTimeDiff(time_diff, resp)
    /\ ini' = [ini EXCEPT !.pc = "caps",
                          !.time = IF resp.error THEN "err" ELSE "ok"]
    /\ Answer(Req("GetCapabilities"))
    /\ UNCHANGED <<keepAddr, information, services, profile_list,
                   current_profile, ptz_moving, runs, streamFaults, deviceProfiles, opVars>>

\* the GetCapabilities callback, then _getDeviceInformation
GetCapabilitiesDone(resp) ==
    /\ ini.pc = "caps"
    /\ Pending("GetCapabilities")
    /\ IF resp.kind # "ok"
       THEN /\ ini' = Reject(ini, "caps", "init")
            /\ AnswerOnly
            /\ UNCHANGED <<services, auth>>
       ELSE /\ services' = NewServices(services, resp.XAddr)
            /\ auth' = [auth EXCEPT
                            !.held = NewCredentials(auth.held, resp.XAddr,
                                                    auth.user, auth.pass)]
            /\ ini' = [ini EXCEPT !.pc = "info", !.capsSeen = TRUE,
                                  !.XAddr = resp.XAddr]
            /\ Answer(Req("GetDeviceInformation"))
    /\ UNCHANGED <<keepAddr, time_diff, information, profile_list,
                   current_profile, ptz_moving, runs, streamFaults,
                   deviceProfiles, calls, last, obs, selected, busy, soap,
                   snap>>

\* the GetDeviceInformation callback, then _mediaGetProfiles; without a
\* Media service this.services.media.getProfiles throws a TypeError
GetDeviceInformationDone(resp) ==
    /\ ini.pc = "info"
    /\ Pending("GetDeviceInformation")
    /\ IF resp.error
       THEN /\ ini' = Reject(ini, "info", "init")
            /\ AnswerOnly
            /\ UNCHANGED information
       ELSE /\ information' = resp.Manufacturer
            /\ IF ~services["media"]
               THEN /\ ini' = Reject(ini, "profiles", "TypeError")
                    /\ AnswerOnly
               ELSE /\ ini' = [ini EXCEPT !.pc = "profiles"]
                    /\ Answer(Req("GetProfiles"))
    /\ UNCHANGED <<keepAddr, time_diff, services, profile_list,
                   current_profile, ptz_moving, runs, streamFaults, deviceProfiles, opVars>>

\* the first step of _mediaGetStreamURI on the list l
StartStreams(run, l) ==
    LET s == StreamStep(l, 0, 0) IN
    IF s.done
    THEN /\ ini' = Resolve(run)
         /\ AnswerOnly
    ELSE /\ ini' = [run EXCEPT !.pc = "streams",
                               !.profile_index = s.profile_index,
                               !.protocol_index = s.protocol_index]
         /\ Answer(StreamReq(l[s.profile_index + 1].token,
                             protocol_list[s.protocol_index + 1]))

\* the GetProfiles callback, then _mediaGetStreamURI
GetProfilesDone(resp) ==
    /\ ini.pc = "profiles"
    /\ Pending("GetProfiles")
    /\ IF resp.kind = "error" \/ NoProfiles(resp)
       THEN /\ ini' = Reject([ini EXCEPT !.profiles = resp.kind],
                             "profiles", "init")
            /\ AnswerOnly
            /\ UNCHANGED <<profile_list, current_profile>>
       ELSE /\ profile_list' = PushProfiles(profile_list, resp.Profiles)
            /\ current_profile' =
                   FirstIfNone(current_profile, profile_list, resp.Profiles)
            /\ StartStreams([ini EXCEPT !.profiles = resp.kind,
                                        !.raw = resp.Profiles],
                            profile_list')
    /\ UNCHANGED <<keepAddr, time_diff, information, services, ptz_moving,
                   runs, streamFaults, deviceProfiles, opVars>>

\* the GetStreamUri callback, then the next getStreamUri()
GetStreamUriDone(resp) ==
    /\ ini.pc = "streams"
    /\ Pending("GetStreamUri")
    /\ resp = "error" => streamFaults < MaxStreamFaults
    /\ streamFaults' = IF resp = "error" THEN streamFaults + 1 ELSE streamFaults
    /\ LET r == Head(wire)
           i == ini.profile_index + 1
           q == ToLowerCase(protocol_list[ini.protocol_index + 1])
           l == IF resp = "ok"
                THEN StoreUri(profile_list, i, q,
                         GetUri(keepAddr, ReportedUri(r.token, r.protocol)))
                ELSE profile_list
           s == StreamStep(l, ini.profile_index, ini.protocol_index + 1)
       IN /\ profile_list' = l
          /\ IF s.done
             THEN /\ ini' = Resolve(ini)
                  /\ AnswerOnly
             ELSE /\ ini' = [ini EXCEPT !.profile_index = s.profile_index,
                                        !.protocol_index = s.protocol_index]
                  /\ Answer(StreamReq(l[s.profile_index + 1].token,
                                      protocol_list[s.protocol_index + 1]))
    /\ UNCHANGED <<keepAddr, time_diff, information, services,
                   current_profile, ptz_moving, runs, deviceProfiles, opVars>>

\* ------------------------------------------------------------------------
\* changeProfile(index|token)
\* ------------------------------------------------------------------------
\* (variant: the index counts from 1)
ProfileAtOneBased(list, index) ==
    IF index >= 1 /\ index <= Len(list) THEN index ELSE 0

\* the list position changeProfile selects for a numeric index, 0 for none
ProfileAt(list, index) ==
    IF index >= 0 /\ index + 1 <= Len(list) THEN index + 1 ELSE 0

\* the list position of the first profile carrying the token, 0 for none
ProfileByToken(list, token) ==
    IF \E i \in 1..Len(list) : list[i].token = token
    THEN CHOOSE i \in 1..Len(list) :
             /\ list[i].token = token
             /\ \A j \in 1..(i - 1) : list[j].token # token
    ELSE 0

\* current_profile after changeProfile found position p (0: no match)
Selected(cur, p) == IF p # 0 THEN p ELSE cur

\* ------------------------------------------------------------------------
\* The session from its constructor
\* ------------------------------------------------------------------------
Next ==
    \/ InitCall
    \/ \E resp \in TimeResponses : GetSystemDateAndTimeDone(resp)
    \/ \E resp \in CapabilitiesResponses : GetCapabilitiesDone(resp)
    \/ \E resp \in InformationResponses : GetDeviceInformationDone(resp)
    \/ \E resp \in ProfilesResponses(deviceProfiles) : GetProfilesDone(resp)
    \/ \E resp \in StreamResponses : GetStreamUriDone(resp)

Spec == Init /\ [][Next]_vars

\* the list after _mediaGetStreamURI has stored every stream URI
Streamed(list, keep) ==
    [i \in 1..Len(list) |->
        [list[i] EXCEPT !.stream =
            [q \in {"udp", "http", "rtsp"} |->
                GetUri(keep, ReportedUri(list[i].token,
                    CHOOSE x \in {"UDP", "HTTP", "RTSP"} : ToLowerCase(x) = q))]]]

\* the commands of init() before the stream requests
InitOrder ==
    <<"GetSystemDateAndTime", "GetCapabilities", "GetDeviceInformation",
      "GetProfiles">>

\* ------------------------------------------------------------------------
\* init() from its GetProfiles request, against profiles of any shape
\* ------------------------------------------------------------------------
\* the session while the first init() awaits GetProfiles or, for a device
\* with one profile, the second, after the first init() stored that profile
\* and its stream URIs
InitProfiles ==
    /\ deviceProfiles \in 1..MaxProfiles
    /\ runs \in 1..2
    /\ runs = 2 => deviceProfiles = 1
    /\ keepAddr = FALSE
    /\ time_diff = 0
    /\ information \in Manufacturers
    /\ services = NewServices([k \in ServiceNames |-> FALSE], ServiceNames)
    /\ LET profiles == IF runs = 1 THEN <<>>
                       ELSE [i \in 1..deviceProfiles |-> RawProfile(i)]
       IN  /\ profile_list = Streamed(PushProfiles(<<>>, profiles), FALSE)
           /\ current_profile = FirstIfNone(0, <<>>, profiles)
    /\ ptz_moving = FALSE
    /\ ini = [IdleRun EXCEPT !.pc = "profiles", !.time = "err",
                             !.capsSeen = TRUE, !.XAddr = ServiceNames]
    /\ wire = <<Req("GetProfiles")>>
    /\ sent = [i \in 1..Len(InitOrder) |-> Req(InitOrder[i])]
    /\ streamFaults = 0
    /\ NoOps
    /\ selected = 0

NextProfiles ==
    \/ /\ ini.pc = "profiles"
       /\ \E resp \in ShapedResponses(deviceProfiles) : GetProfilesDone(resp)
    \/ \E resp \in StreamResponses : GetStreamUriDone(resp)

SpecProfiles == InitProfiles /\ [][NextProfiles]_vars

\* the same, when every GetStreamUri request that was issued completes
SpecStreams ==
    SpecProfiles
        /\ WF_vars(\E resp \in StreamResponses : GetStreamUriDone(resp))

\* ------------------------------------------------------------------------
\* Properties of init()
\* ------------------------------------------------------------------------
StreamRequested == \E i \in 1..Len(sent) : sent[i].cmd = "GetStreamUri"

\* C4: the commands of an init() run are issued in the order
\* GetSystemDateAndTime, GetCapabilities, GetDeviceInformation, GetProfiles,
\* then GetStreamUri requests; a request is issued only after the previous
\* one has completed, so at most one request of init() is in flight and it
\* is the one issued last.
C4_InitCommandsInOrder ==
    /\ \A i \in 1..Len(sent) :
           IF i <= Len(InitOrder)
           THEN sent[i].cmd = InitOrder[i]
           ELSE sent[i].cmd = "GetStreamUri"
    /\ Len(wire) <= 1
    /\ wire # <<>> => Head(wire) = sent[Len(sent)]

\* C4 witness: a GetStreamUri request is in flight after the four commands
C4_Witness ==
    /\ Len(sent) > Len(InitOrder) + 1
    /\ wire # <<>>
    /\ Head(wire).cmd = "GetStreamUri"

\* C5 (as claimed): when the capabilities, device-information or profiles
\* step fails, init() rejects exactly once with an error whose message is
\* 'Failed to initialize the device: ...', and no request of a later step
\* is issued.
C5_FatalFailureRejectsWithInitError ==
    ini.fatal # "none" =>
        /\ ini.pc = "rejected"
        /\ ini.settled = 1
        /\ ini.err = "init"
        /\ wire = <<>>
        /\ Len(sent) <= Len(InitOrder)
        /\ ini.fatal = "caps" => Len(sent) = 2
        /\ ini.fatal = "info" => Len(sent) = 3

\* C6 (as claimed): whenever init() has rejected, the session exposes no
\* partially initialized state: no information, no profiles, no current
\* profile and no Media/PTZ/Imaging/Events service.
C6_NoPartialStateAfterRejection ==
    ini.pc = "rejected" =>
        /\ information = Null
        /\ profile_list = <<>>
        /\ current_profile = 0
        /\ \A k \in ServiceNames : ~services[k]

\* C7 (as claimed): in every reachable state no two entries of the profile
\* list carry the same token.
C7_TokensUnique ==
    \A i, j \in 1..Len(profile_list) :
        i # j => profile_list[i].token # profile_list[j].token

\* C8 (as claimed): after an init() has passed the capabilities step, the
\* session holds a service exactly for the services its capabilities
\* response carried an XAddr for.
C8_ServicesMatchLatestCapabilities ==
    ini.capsSeen => \A k \in ServiceNames : services[k] <=> k \in ini.XAddr

\* C9 (as claimed): in every init() in which GetSystemDateAndTime failed,
\* the run goes on to GetCapabilities and the clock offset is 0.
C9_FailedTimeQueryMeansZeroOffset ==
    ini.time = "err" =>
        /\ Len(sent) >= 2
        /\ sent[2].cmd = "GetCapabilities"
        /\ time_diff = 0

\* C10: a GetProfiles response without Profiles element or with an empty
\* one makes init() reject with an initialization error without any
\* GetStreamUri request; init() resolves only after a response that carried
\* at least one profile, so never with zero profiles.
C10_NoProfilesIsFatal ==
    /\ ini.profiles \in {"missing", "empty"} =>
           /\ ini.pc = "rejected"
           /\ ini.err = "init"
           /\ ~StreamRequested
           /\ wire = <<>>
    /\ ini.pc = "resolved" =>
           /\ ini.profiles = "list"
           /\ Len(profile_list) > 0

\* C10 witness: an init() run has seen an empty Profiles element
C10_Witness ==
    /\ ini.profiles = "empty"
    /\ ini.pc = "rejected"

\* ------------------------------------------------------------------------
\* The profile-scoped imaging and encoder operations
\* ------------------------------------------------------------------------
ImagingOps == {"getImagingSettings", "setImagingSettings", "getImagingOptions"}
EncoderOps ==
    {"getVideoEncoderConfiguration", "getVideoEncoderConfigurationOptions",
     "setVideoEncoderConfiguration"}
ScopedOps == ImagingOps \cup EncoderOps

\* (variant: every operation looks for the media service)
ServiceOfMedia(op) == "media"

\* the service an operation needs: this.services['imaging'|'media']
ServiceOf(op) == IF op \in ImagingOps THEN "imaging" ELSE "media"

\* what getProfilesFromDevice() delivers: a connection error, profiles
\* without the configuration the operation looks for, or profiles whose
\* video encoder configuration has the given encoding
CamResponses == {"error", "none", "H264", "JPEG"}
\* what a command of the imaging or media service delivers
CommandResponses == {"error", "ok"}

\* typeof profileIndex === 'number' && 0 <= profileIndex < profile_list.length
ValidIndex(list, idx) == idx >= 0 /\ idx < Len(list)

\* (variant: the operation settles without writing originalProfile back)
KeepProfile(orig, cur) == cur

\* this.current_profile = originalProfile
RestoreProfile(orig, cur) == orig

\* the operation goes on with a request in flight
Goes(inst, cur) == [inst |-> inst, cur |-> cur, res |-> "pending", val |-> ""]

\* (variant: the operation settles and leaves the profile as it is)
SettlesWithoutRestore(orig, cur, res, val) ==
    [inst |-> NoInst, cur |-> cur, res |-> res, val |-> val]

\* the operation restores the profile and settles its promise
Settles(orig, cur, res, val) ==
    [inst |-> NoInst, cur |-> RestoreProfile(orig, cur), res |-> res,
     val |-> val]

\* the synchronous part of a scoped operation, called with profileIndex idx
\* while position cur is current; params tells whether the params argument
\* of a set operation is an object
StartScoped(op, idx, params, cur, list, svc) ==
    IF ~params
    THEN [inst |-> NoInst, cur |-> cur, res |-> "rejected", val |-> "params"]
    ELSE IF ~ValidIndex(list, idx)
    THEN [inst |-> NoInst, cur |-> cur, res |-> "rejected", val |-> "index"]
    ELSE LET sel == Selected(cur, ProfileAt(list, idx))
             me == [op |-> op, pc |-> "cam", idx |-> idx, orig |-> cur,
                    inner |-> 0, failed |-> {}]
         IN  IF ~svc[ServiceOf(op)]
             THEN Settles(cur, sel, "rejected", "unsupported")
             ELSE IF op = "setImagingSettings"
             THEN \* this.getImagingSettings(profileIndex) starts nested
                  Goes([me EXCEPT !.pc = "inner_cam", !.inner = sel],
                       Selected(sel, ProfileAt(list, idx)))
             ELSE Goes(me, sel)

\* the catch handler of the encoder operations: retry with the encoder
\* token of this.current_profile, if it has one
Fallback(inst, cur, list) ==
    IF cur = 0
    THEN \* this.current_profile['video'] throws: the promise never settles
         [inst |-> NoInst, cur |-> cur, res |-> "hung", val |-> ""]
    ELSE IF list[cur].video_encoder # 0
    THEN Goes([inst EXCEPT !.pc = "fallback"], cur)
    ELSE Settles(inst.orig, cur, "rejected", "")

\* getProfilesFromDevice() has completed with resp
CamStep(inst, resp, cur, list) ==
    LET found == resp \in {"H264", "JPEG"}
    IN  CASE inst.pc = "inner_cam" ->
                 IF found
                 THEN Goes([inst EXCEPT !.pc = "inner_cmd"], cur)
                 ELSE Settles(inst.orig, RestoreProfile(inst.inner, cur),
                              "rejected", "")
          [] inst.op \in ImagingOps ->
                 IF found
                 THEN Goes([inst EXCEPT !.pc = "cmd"], cur)
                 ELSE Settles(inst.orig, cur, "rejected", "")
          [] inst.op = "getVideoEncoderConfiguration" ->
                 IF found
                 THEN Settles(inst.orig, cur, "resolved", resp)
                 ELSE Fallback(inst, cur, list)
          [] OTHER ->
                 IF found
                 THEN Goes([inst EXCEPT !.pc = "cmd"], cur)
                 ELSE Fallback(inst, cur, list)

\* the device command an operation has in flight at its position
CommandAt(inst) ==
    CASE inst.pc = "inner_cmd" -> "GetImagingSettings"
      [] inst.op = "getImagingSettings" -> "GetImagingSettings"
      [] inst.op = "setImagingSettings" -> "SetImagingSettings"
      [] inst.op = "getImagingOptions" -> "GetOptions"
      [] inst.op = "getVideoEncoderConfigurationOptions" ->
             "GetVideoEncoderConfigurationOptions"
      [] inst.op = "setVideoEncoderConfiguration"
             /\ inst.pc \in {"cmd2", "fallback2"} ->
             "SetVideoEncoderConfiguration"
      [] OTHER -> "GetVideoEncoderConfiguration"

\* the operation as its catch handler finds it: the command that failed
\* is remembered
Failed(inst) == [inst EXCEPT !.failed = @ \cup {CommandAt(inst)}]

\* a command of the imaging or media service has completed with resp
CommandStep(inst, resp, cur, list) ==
    LET ok == resp = "ok"
        two == inst.op = "setVideoEncoderConfiguration"
    IN  CASE inst.pc = "inner_cmd" ->
                 \* the nested getImagingSettings restores and settles, then
                 \* setImagingSettings asks for the profiles or gives up
                 IF ok
                 THEN Goes([inst EXCEPT !.pc = "cam"],
                           RestoreProfile(inst.inner, cur))
                 ELSE Settles(inst.orig, RestoreProfile(inst.inner, cur),
                              "rejected", "")
          [] inst.pc = "cmd" /\ inst.op \in ImagingOps ->
                 Settles(inst.orig, cur,
                         IF ok THEN "resolved" ELSE "rejected", "")
          [] inst.pc = "cmd" /\ inst.op \notin ImagingOps ->
                 \* setVideoEncoderConfiguration of the media service reads
                 \* the configuration first, then writes it
                 IF ~ok THEN Fallback(Failed(inst), cur, list)
                 ELSE IF two THEN Goes([inst EXCEPT !.pc = "cmd2"], cur)
                 ELSE Settles(inst.orig, cur, "resolved", "")
          [] inst.pc = "cmd2" ->
                 IF ok THEN Settles(inst.orig, cur, "resolved", "")
                 ELSE Fallback(Failed(inst), cur, list)
          [] inst.pc = "fallback" ->
                 IF ok /\ two THEN Goes([inst EXCEPT !.pc = "fallback2"], cur)
                 ELSE Settles(inst.orig, cur,
                              IF ok THEN "resolved" ELSE "rejected",
                              IF ok THEN "H264" ELSE "")
          [] OTHER ->
                 Settles(inst.orig, cur,
                         IF ok THEN "resolved" ELSE "rejected", "")

AwaitsCam(inst) == inst.pc \in {"cam", "inner_cam"}
AwaitsCommand(inst) ==
    inst.pc \in {"cmd", "cmd2", "fallback", "fallback2", "inner_cmd"}

InFlight(c) == calls[c].inst.op # "none"
AllIdle == \A c \in Callers : ~InFlight(c)

\* the step settled the call op(idx) of a caller, made while atCall was
\* current
Event(op, res, idx, atCall) ==
    [op |-> op, res |-> res, idx |-> idx, atCall |-> atCall, err |-> ""]

\* the state of caller c's call after a step with outcome r
After(c, r) ==
    CASE r.res = "pending" -> [calls[c] EXCEPT !.inst = r.inst]
      [] r.res = "hung" -> [calls[c] EXCEPT !.inst.pc = "hung"]
      [] OTHER -> NoCall

\* what a step with outcome r settled of caller c's call op(idx)
Outcome(r, op, idx, atCall) ==
    IF r.res \in {"resolved", "rejected"}
    THEN [Event(op, r.res, idx, atCall)
             EXCEPT !.err = IF r.res = "rejected" THEN r.val ELSE ""]
    ELSE NoEvent

\* the arguments a caller may pass
Indexes == 0..MaxProfiles
Params(op) ==
    IF op \in {"setImagingSettings", "setVideoEncoderConfiguration"}
    THEN BOOLEAN ELSE {TRUE}

\* caller c calls op(idx) (op(params, idx) for the set operations)
CallScoped(c, op, idx, params) ==
    /\ ~InFlight(c)
    /\ LET r == StartScoped(op, idx, params, current_profile, profile_list,
                            services)
       IN  /\ current_profile' = r.cur
           /\ calls' = [calls EXCEPT ![c] =
                            [After(c, r) EXCEPT !.atCall =
                                 IF r.res = "pending" THEN current_profile
                                 ELSE 0]]
           /\ last' = Outcome(r, op, idx, current_profile)
    /\ obs' = NoObs
    /\ UNCHANGED <<keepAddr, time_diff, information, services, profile_list,
                   ptz_moving, initVars, selected>>

\* getProfilesFromDevice() of caller c's operation completes
getProfilesFromDeviceDone(c, resp) ==
    /\ AwaitsCam(calls[c].inst)
    /\ calls[c].tasks = <<>>
    /\ LET r == CamStep(calls[c].inst, resp, current_profile, profile_list)
       IN  /\ current_profile' = r.cur
           /\ calls' = [calls EXCEPT ![c] = After(c, r)]
           /\ last' = Outcome(r, calls[c].inst.op, calls[c].inst.idx,
                              calls[c].atCall)
    /\ obs' = NoObs
    /\ UNCHANGED <<keepAddr, time_diff, information, services, profile_list,
                   ptz_moving, initVars, selected>>

\* the command caller c's operation has sent to the device completes
CommandDone(c, resp) ==
    /\ AwaitsCommand(calls[c].inst)
    /\ calls[c].tasks = <<>>
    /\ LET r == CommandStep(calls[c].inst, resp, current_profile,
                            profile_list)
       IN  /\ current_profile' = r.cur
           /\ calls' = [calls EXCEPT ![c] = After(c, r)]
           /\ last' = Outcome(r, calls[c].inst.op, calls[c].inst.idx,
                              calls[c].atCall)
    /\ obs' = NoObs
    /\ UNCHANGED <<keepAddr, time_diff, information, services, profile_list,
                   ptz_moving, initVars, selected>>

\* ------------------------------------------------------------------------
\* getCameraCapabilities()
\* ------------------------------------------------------------------------
\* One operation getCameraCapabilities awaits.  In the imaging phase there
\* is one (stage "options", then "settings"); afterwards one per profile:
\* "vec" while getVideoEncoderConfiguration runs, "opts" while
\* getVideoEncoderConfigurationOptions runs, then "caps" (the profile's
\* capabilities) or "null" (profile skipped).
Task(stage, inst) == [stage |-> stage, inst |-> inst]

H26x(encoding) == encoding \in {"H264", "H265"}

\* if (this.services['media']) await getVideoEncoderConfigurationOptions(i)
StartOptions(i, cur, list, svc) ==
    IF ~svc["media"]
    THEN [task |-> Task("caps", NoInst), cur |-> cur]
    ELSE LET r == StartScoped("getVideoEncoderConfigurationOptions", i, TRUE,
                              cur, list, svc)
         IN  IF r.res = "pending"
             THEN [task |-> Task("opts", r.inst), cur |-> r.cur]
             ELSE [task |-> Task("caps", NoInst), cur |-> r.cur]

\* the task of profile index i goes on after its
\* getVideoEncoderConfiguration(i).catch(() => null) settled with outcome r
AfterVec(i, r, list, svc) ==
    CASE r.res = "hung" -> [task |-> Task("hung", NoInst), cur |-> r.cur]
      [] r.res = "resolved" /\ H26x(r.val) ->
             StartOptions(i, r.cur, list, svc)
      [] r.res = "resolved" /\ ~H26x(r.val) ->
             [task |-> Task("null", NoInst), cur |-> r.cur]
      [] OTHER ->
             IF H26x(list[i + 1].video_encoding)
             THEN StartOptions(i, r.cur, list, svc)
             ELSE [task |-> Task("null", NoInst), cur |-> r.cur]

\* this.profile_list.map(async (profile, profileIndex) => ...): the tasks
\* of the profile indexes from i on start one after the other
RECURSIVE StartTasks(_, _, _, _)
StartTasks(i, cur, list, svc) ==
    IF i >= Len(list)
    THEN [tasks |-> <<>>, cur |-> cur]
    ELSE LET sel == Selected(cur, ProfileAt(list, i))
             r == StartScoped("getVideoEncoderConfiguration", i, TRUE, sel,
                              list, svc)
             t == IF r.res = "pending"
                  THEN [task |-> Task("vec", r.inst), cur |-> r.cur]
                  ELSE AfterVec(i, r, list, svc)
             rest == StartTasks(i + 1, t.cur, list, svc)
         IN  [tasks |-> <<t.task>> \o rest.tasks, cur |-> rest.cur]

TaskDone(t) == t.stage \in {"caps", "null"}

\* after Promise.all: restore, then resolve with the capabilities found or
\* reject if no profile yielded any
Finish(call, tasks, cur) ==
    IF \A i \in 1..Len(tasks) : TaskDone(tasks[i])
    THEN [call |-> NoCall,
          cur |-> RestoreProfile(call.inst.orig, cur),
          last |-> Event("getCameraCapabilities",
                         IF \E i \in 1..Len(tasks) : tasks[i].stage = "caps"
                         THEN "resolved" ELSE "rejected",
                         0, call.atCall)]
    ELSE [call |-> [call EXCEPT !.tasks = tasks, !.inst.pc = "tasks"],
          cur |-> cur, last |-> NoEvent]

\* the imaging phase is over: the per-profile tasks start
EnterTasks(call, cur, list, svc) ==
    LET s == StartTasks(0, cur, list, svc)
    IN  Finish(call, s.tasks, s.cur)

\* the imaging phase: changeProfile(0); await getImagingOptions(0);
\* await getImagingSettings(0), inside try/catch
EnterImaging(call, cur, list, svc) ==
    LET sel == Selected(cur, ProfileAt(list, 0))
        r == StartScoped("getImagingOptions", 0, TRUE, sel, list, svc)
    IN  IF r.res = "pending"
        THEN [call |-> [call EXCEPT !.tasks = <<Task("options", r.inst)>>,
                                    !.inst.pc = "imaging"],
              cur |-> r.cur, last |-> NoEvent]
        ELSE EnterTasks(call, r.cur, list, svc)

\* caller c calls getCameraCapabilities()
getCameraCapabilities(c) ==
    /\ ~InFlight(c)
    /\ LET call == [inst |-> [NoInst EXCEPT !.op = "getCameraCapabilities",
                                            !.orig = current_profile],
                    atCall |-> current_profile, tasks |-> <<>>]
           r == IF services["imaging"]
                THEN EnterImaging(call, current_profile, profile_list,
                                  services)
                ELSE EnterTasks(call, current_profile, profile_list, services)
       IN  /\ current_profile' = r.cur
           /\ calls' = [calls EXCEPT ![c] = r.call]
           /\ last' = r.last
    /\ obs' = NoObs
    /\ UNCHANGED <<keepAddr, time_diff, information, services, profile_list,
                   ptz_moving, initVars, selected>>

\* the imaging phase goes on after getImagingOptions(0) settled with r
AfterOptions(call, r, list, svc) ==
    IF r.res # "resolved"
    THEN EnterTasks(call, r.cur, list, svc)
    ELSE LET q == StartScoped("getImagingSettings", 0, TRUE, r.cur, list, svc)
         IN  IF q.res = "pending"
             THEN [call |-> [call EXCEPT !.tasks = <<Task("settings", q.inst)>>],
                   cur |-> q.cur, last |-> NoEvent]
             ELSE EnterTasks(call, q.cur, list, svc)

\* a request of the i-th operation getCameraCapabilities awaits completes
KidDone(c, i, resp) ==
    /\ calls[c].inst.op = "getCameraCapabilities"
    /\ i \in 1..Len(calls[c].tasks)
    /\ \/ AwaitsCam(calls[c].tasks[i].inst) /\ resp \in CamResponses
       \/ AwaitsCommand(calls[c].tasks[i].inst) /\ resp \in CommandResponses
    /\ LET call == calls[c]
           t == call.tasks[i]
           r == IF AwaitsCam(t.inst)
                THEN CamStep(t.inst, resp, current_profile, profile_list)
                ELSE CommandStep(t.inst, resp, current_profile, profile_list)
           n == CASE r.res = "pending" ->
                         \* (failed commands are remembered for a caller's
                         \* own operation only)
                         [call |-> [call EXCEPT !.tasks[i].inst =
                                        [r.inst EXCEPT !.failed = {}]],
                          cur |-> r.cur, last |-> NoEvent]
                  [] r.res # "pending" /\ t.stage = "options" ->
                         AfterOptions(call, r, profile_list, services)
                  [] r.res # "pending" /\ t.stage = "settings" ->
                         EnterTasks(call, r.cur, profile_list, services)
                  [] r.res # "pending" /\ t.stage = "vec" ->
                         LET a == AfterVec(i - 1, r, profile_list, services)
                         IN  Finish(call, [call.tasks EXCEPT ![i] = a.task],
                                    a.cur)
                  [] OTHER ->
                         Finish(call,
                                [call.tasks EXCEPT ![i] =
                                     Task(IF r.res = "hung" THEN "hung"
                                          ELSE "caps", NoInst)],
                                r.cur)
       IN  /\ current_profile' = n.cur
           /\ calls' = [calls EXCEPT ![c] = n.call]
           /\ last' = n.last
    /\ obs' = NoObs
    /\ UNCHANGED <<keepAddr, time_diff, information, services, profile_list,
                   ptz_moving, initVars, selected>>

\* ------------------------------------------------------------------------
\* changeProfile and the calls that use the current profile
\* ------------------------------------------------------------------------
\* JSON.parse(JSON.stringify(o)) of a profile object: a NaN becomes null
JsonNull == [null |-> TRUE]
JsonNumber(n) == IF n.nan THEN JsonNull ELSE n
JsonCopy(o) ==
    [o EXCEPT !.ptz_range =
        [a \in DOMAIN o.ptz_range |->
            [min |-> JsonNumber(o.ptz_range[a].min),
             max |-> JsonNumber(o.ptz_range[a].max)]]]

\* the value getCurrentProfile() returns: <<>> for null
ReturnedProfile(list, cur) ==
    IF cur # 0 THEN <<JsonCopy(list[cur])>> ELSE <<>>

\* what changeProfile did: the position p it selected (0: none) and the
\* value it returned
Changed(p, list) ==
    [NoObs EXCEPT !.op = "changeProfile",
                  !.res = IF p # 0 THEN "returned" ELSE "null",
                  !.seen = p,
                  !.ret = ReturnedProfile(list, p)]

\* changeProfile(index) with a number
changeProfile(index) ==
    /\ LET p == ProfileAt(profile_list, index)
       IN  /\ current_profile' = Selected(current_profile, p)
           /\ selected' = Selected(selected, p)
           /\ obs' = Changed(p, profile_list)
    /\ last' = NoEvent
    /\ UNCHANGED <<keepAddr, time_diff, information, services, profile_list,
                   ptz_moving, initVars, calls>>

\* changeProfile(token) with a string
changeProfileByToken(token) ==
    /\ LET p == ProfileByToken(profile_list, token)
       IN  /\ current_profile' = Selected(current_profile, p)
           /\ selected' = Selected(selected, p)
           /\ obs' = Changed(p, profile_list)
    /\ last' = NoEvent
    /\ UNCHANGED <<keepAddr, time_diff, information, services, profile_list,
                   ptz_moving, initVars, calls>>

\* the arguments that are neither a non-negative integer nor a non-empty
\* string
OtherArguments ==
    {"undefined", "null", "object", "boolean", "NaN", "fraction",
     "emptyString"}

\* changeProfile(arg) with any other argument: the last else branch
changeProfileOther(arg) ==
    /\ obs' = Changed(0, profile_list)
    /\ last' = NoEvent
    /\ UNCHANGED <<sessVars, initVars, calls, selected>>

\* what a call saw of the current profile: seen is the profile it returned
\* or addressed (0 if it rejected before using it), during tells whether a
\* scoped operation was in flight
Observed(op, res, seen) ==
    [NoObs EXCEPT !.op = op, !.res = res, !.seen = seen,
                  !.during = IF AllIdle THEN 0 ELSE 1]

getCurrentProfile ==
    /\ obs' = [Observed("getCurrentProfile", "returned", current_profile)
                  EXCEPT !.ret = ReturnedProfile(profile_list,
                                                 current_profile)]
    /\ last' = NoEvent
    /\ UNCHANGED <<sessVars, initVars, calls, selected>>

\* (variant: the PTZ service is not looked at)
PtzReadyWithProfile(cur, svc) == cur # 0

\* the checks of ptzMove and ptzStop: a current profile and a PTZ service
PtzReady(cur, svc) == cur # 0 /\ svc["ptz"]

\* the call this.services['ptz'].<method>(p, this.information)
PtzCall(method, list, cur) ==
    <<[method |-> method, ProfileToken |-> list[cur].token]>>

\* ptzMove(params) with a params object: continuousMove with the token of
\* the current profile
ptzMove ==
    /\ IF ~PtzReady(current_profile, services)
       THEN /\ obs' = Observed("ptzMove", "rejected", 0)
            /\ UNCHANGED ptz_moving
       ELSE /\ obs' = [Observed("ptzMove", "sent", current_profile)
                          EXCEPT !.cmds = PtzCall("continuousMove",
                                                  profile_list,
                                                  current_profile)]
            /\ ptz_moving' = TRUE
    /\ last' = NoEvent
    /\ UNCHANGED <<keepAddr, time_diff, information, services, profile_list,
                   current_profile, initVars, calls, selected>>

\* ptzStop(): stop with the token of the current profile
ptzStop ==
    /\ IF ~PtzReady(current_profile, services)
       THEN /\ obs' = Observed("ptzStop", "rejected", 0)
            /\ UNCHANGED ptz_moving
       ELSE /\ obs' = [Observed("ptzStop", "sent", current_profile)
                          EXCEPT !.cmds = PtzCall("stop", profile_list,
                                                  current_profile)]
            /\ ptz_moving' = FALSE
    /\ last' = NoEvent
    /\ UNCHANGED <<keepAddr, time_diff, information, services, profile_list,
                   current_profile, initVars, calls, selected>>

\* the request handed to mOnvifHttpAuth.request(options, ...)
SnapshotGet(uri) == <<[method |-> "GET", uri |-> uri]>>

\* (variant: the snapshot URI of the current profile is not looked at)
fetchSnapshotOfAnyProfile ==
    /\ IF current_profile = 0
       THEN obs' = Observed("fetchSnapshot", "rejected", 0)
       ELSE obs' = [Observed("fetchSnapshot", "sent", current_profile)
                       EXCEPT !.cmds = SnapshotGet(
                           profile_list[current_profile].snapshot)]
    /\ last' = NoEvent
    /\ UNCHANGED <<sessVars, initVars, calls, selected>>

\* fetchSnapshot(): GET of the snapshot URL of the current profile
fetchSnapshot ==
    /\ IF current_profile = 0
       THEN obs' = Observed("fetchSnapshot", "rejected", 0)
       ELSE IF profile_list[current_profile].snapshot = EmptyUri
       THEN obs' = Observed("fetchSnapshot", "rejected", current_profile)
       ELSE obs' = [Observed("fetchSnapshot", "sent", current_profile)
                       EXCEPT !.cmds = SnapshotGet(
                           profile_list[current_profile].snapshot)]
    /\ last' = NoEvent
    /\ UNCHANGED <<sessVars, initVars, calls, selected>>

\* ------------------------------------------------------------------------
\* A session on which init() has resolved
\* ------------------------------------------------------------------------
\* the fields after one init() against a device that answered GetProfiles
\* with the given profiles and whose capabilities carried the addresses XAddr
ReadyWith(profiles, XAddr) ==
        /\ keepAddr = FALSE
        /\ time_diff = 0
        /\ information \in Manufacturers
        /\ services = NewServices([k \in ServiceNames |-> FALSE], XAddr)
        /\ profile_list = Streamed(PushProfiles(<<>>, profiles), FALSE)
        /\ current_profile = FirstIfNone(0, <<>>, profiles)
        /\ ptz_moving = FALSE
        /\ ini = Resolve([IdleRun EXCEPT !.time = "err", !.capsSeen = TRUE,
                                         !.XAddr = XAddr,
                                         !.profiles = "list"])
        /\ runs = 1
        /\ wire = <<>>
        /\ sent = <<>>
        /\ streamFaults = 0
        /\ deviceProfiles = Len(profiles)

\* the fields after an init() that rejected because the GetProfiles response
\* had an empty Profiles element: the services are set, no profile is listed
RejectedAtProfiles(XAddr) ==
        /\ keepAddr = FALSE
        /\ time_diff = 0
        /\ information \in Manufacturers
        /\ services = NewServices([k \in ServiceNames |-> FALSE], XAddr)
        /\ profile_list = <<>>
        /\ current_profile = 0
        /\ ptz_moving = FALSE
        /\ ini = Reject([IdleRun EXCEPT !.time = "err", !.capsSeen = TRUE,
                                        !.XAddr = XAddr,
                                        !.profiles = "empty"],
                        "profiles", "init")
        /\ runs = 1
        /\ wire = <<>>
        /\ sent = <<>>
        /\ streamFaults = 0
        /\ deviceProfiles = 1

\* the fields after one init() against a device with n profiles whose
\* capabilities carried the addresses XAddr
Ready(n, XAddr) ==
    LET profiles == [i \in 1..n |-> RawProfile(i)]
    IN  /\ keepAddr = FALSE
        /\ time_diff = 0
        /\ information \in Manufacturers
        /\ services = NewServices([k \in ServiceNames |-> FALSE], XAddr)
        /\ profile_list = Streamed(PushProfiles(<<>>, profiles), FALSE)
        /\ current_profile = FirstIfNone(0, <<>>, profiles)
        /\ ptz_moving = FALSE
        /\ ini = Resolve([IdleRun EXCEPT !.time = "err", !.capsSeen = TRUE,
                                         !.XAddr = XAddr,
                                         !.profiles = "list"])
        /\ runs = 1
        /\ wire = <<>>
        /\ sent = <<>>
        /\ streamFaults = 0
        /\ deviceProfiles = n

InitSession ==
    /\ \E n \in 1..MaxProfiles :
           \E XAddr \in {{"media", "ptz"}, {"media", "imaging", "events"}} :
               Ready(n, XAddr)
    /\ NoOps
    /\ selected = current_profile

\* one client task ("A") awaits each scoped operation before the next;
\* changeProfile and the calls that use the current profile come at any time
NextSession ==
    \/ /\ \E op \in ScopedOps : \E idx \in Indexes : \E params \in Params(op) :
              CallScoped("A", op, idx, params)
       /\ UNCHANGED <<busy, soap, snap, auth>>
    \/ getCameraCapabilities("A") /\ UNCHANGED <<busy, soap, snap, auth>>
    \/ /\ \E resp \in CamResponses : getProfilesFromDeviceDone("A", resp)
       /\ UNCHANGED <<busy, soap, snap, auth>>
    \/ /\ \E resp \in CommandResponses : CommandDone("A", resp)
       /\ UNCHANGED <<busy, soap, snap, auth>>
    \/ /\ \E i \in 1..MaxProfiles :
              \E resp \in CamResponses \cup CommandResponses :
                  KidDone("A", i, resp)
       /\ UNCHANGED <<busy, soap, snap, auth>>
    \/ (\E index \in Indexes : changeProfile(index)) /\ UNCHANGED <<busy, soap, snap, auth>>
    \/ /\ \E token \in 1..(MaxProfiles + 1) : changeProfileByToken(token)
       /\ UNCHANGED <<busy, soap, snap, auth>>
    \/ getCurrentProfile /\ UNCHANGED <<busy, soap, snap, auth>>
    \/ ptzMove /\ UNCHANGED <<busy, soap, snap, auth>>
    \/ ptzStop /\ UNCHANGED <<busy, soap, snap, auth>>
    \/ fetchSnapshot /\ UNCHANGED <<busy, soap, snap, auth>>

SpecSession == InitSession /\ [][NextSession]_vars

\* ------------------------------------------------------------------------
\* The calls that select or use the current profile, on any session
\* ------------------------------------------------------------------------
\* a session that was only constructed, one whose init() rejected after the
\* services were set, and sessions whose init() resolved, with profiles of
\* any shape
InitSelect ==
    /\ \/ /\ OnvifDevice
          /\ ini = IdleRun
          /\ runs = 0
          /\ wire = <<>>
          /\ sent = <<>>
          /\ streamFaults = 0
          /\ deviceProfiles = 1
       \/ RejectedAtProfiles(ServiceNames)
       \/ \E n \in 1..MaxProfiles :
              \E XAddr \in {{"media", "ptz"}, {"media", "imaging", "events"}} :
                  Ready(n, XAddr)
       \/ \E n \in 1..MaxProfiles :
              \E resp \in ShapedResponses(n) :
                  ReadyWith(resp.Profiles, ServiceNames)
    /\ NoOps
    /\ selected = current_profile

NextSelect ==
    \/ /\ \E index \in (-1)..MaxProfiles : changeProfile(index)
       /\ UNCHANGED <<busy, soap, snap, auth>>
    \/ /\ \E token \in 0..(MaxProfiles + 1) : changeProfileByToken(token)
       /\ UNCHANGED <<busy, soap, snap, auth>>
    \/ (\E arg \in OtherArguments : changeProfileOther(arg)) /\ UNCHANGED <<busy, soap, snap, auth>>
    \/ getCurrentProfile /\ UNCHANGED <<busy, soap, snap, auth>>
    \/ ptzMove /\ UNCHANGED <<busy, soap, snap, auth>>
    \/ ptzStop /\ UNCHANGED <<busy, soap, snap, auth>>
    \/ fetchSnapshot /\ UNCHANGED <<busy, soap, snap, auth>>

SpecSelect == InitSelect /\ [][NextSelect]_vars

\* ------------------------------------------------------------------------
\* Two client tasks on one session
\* ------------------------------------------------------------------------
\* The record of a busy period (from a call made while nothing was in
\* flight until nothing is in flight again), kept when caller c acts: the
\* number of calls made in it, the profile current before the first of them,
\* who made the first, the profile the first selected temporarily, and
\* whether the first settled while another was still in flight.
TrackOverlap(c) ==
    /\ UNCHANGED <<soap, snap, auth>>
    /\ busy' =
        IF ~InFlight(c)
        THEN IF AllIdle
             THEN [n |-> 1, base |-> current_profile, firstBy |-> c,
                   firstSel |-> current_profile', firstDone |-> FALSE]
             ELSE [busy EXCEPT !.n = @ + 1]
        ELSE IF /\ calls'[c].inst.op = "none"
                /\ c = busy.firstBy
                /\ \E d \in Callers \ {c} : InFlight(d)
             THEN [busy EXCEPT !.firstDone = TRUE]
             ELSE busy

\* two client tasks call the six scoped operations without waiting for
\* each other
NextOverlap ==
    \/ \E c \in Callers :
           /\ AllIdle \/ busy.n < MaxOverlap
           /\ \E op \in ScopedOps : \E idx \in Indexes :
                  \E params \in Params(op) : CallScoped(c, op, idx, params)
           /\ TrackOverlap(c)
    \/ \E c \in Callers :
           /\ \E resp \in CamResponses : getProfilesFromDeviceDone(c, resp)
           /\ TrackOverlap(c)
    \/ \E c \in Callers :
           /\ \E resp \in CommandResponses : CommandDone(c, resp)
           /\ TrackOverlap(c)

\* the PTZ service plays no part in the scoped operations
InitOverlap ==
    /\ \E n \in 1..MaxProfiles :
           Ready(n, {"media", "imaging", "events"})
    /\ NoOps
    /\ selected = current_profile

SpecOverlap == InitOverlap /\ [][NextOverlap]_vars

\* ------------------------------------------------------------------------
\* Properties of the scoped operations
\* ------------------------------------------------------------------------
\* C1: when the promise of a scoped operation settles (resolved or
\* rejected, on the direct path or a fallback path), the current profile is
\* the profile that was current when the operation was called; the caller
\* awaits each operation before calling the next.
C1_SettledOperationRestoresProfile ==
    last.op # "none" => current_profile = last.atCall

\* C1 witness: an encoder operation on another profile than the current one
\* has rejected from its catch handler
C1_Witness ==
    /\ last.op = "setVideoEncoderConfiguration"
    /\ last.res = "rejected"
    /\ ProfileAt(profile_list, last.idx) \notin {0, last.atCall}
    /\ current_profile = last.atCall

\* C2 (as claimed): a call made while a scoped operation is in flight
\* (getCurrentProfile, ptzMove, ptzStop, fetchSnapshot) returns or addresses
\* the profile the caller selected, never the temporarily selected one.
C2_CallsInFlightSeeSelectedProfile ==
    (obs.during = 1 /\ obs.seen # 0) => obs.seen = selected

\* C3: two scoped operations that overlap are not safe together.  When
\* exactly two operations overlapped and both have settled, the current
\* profile is the one saved by the operation that settled last: the profile
\* from before the period if the operation called first settled last, and
\* otherwise the profile the first operation had selected temporarily -
\* which need not be the profile from before the period.
C3_LastSettledOperationDecidesProfile ==
    (AllIdle /\ busy.n = 2) =>
        current_profile =
            IF busy.firstDone THEN busy.firstSel ELSE busy.base

\* C3 witness: two overlapping operations have both settled and the current
\* profile is not the one that was current before either started
C3_Witness ==
    /\ AllIdle
    /\ busy.n = 2
    /\ current_profile # busy.base

\* ------------------------------------------------------------------------
\* Properties of the profile list and of stream resolution
\* ------------------------------------------------------------------------
\* C11: after init() resolves on a fresh session (its first init()), the
\* current profile is the first profile of the GetProfiles response.
C11_FirstProfileIsCurrent ==
    (runs = 1 /\ ini.pc = "resolved") =>
        /\ current_profile = 1
        /\ profile_list[current_profile].token = RawProfile(1).token

\* C11 witness: the first init() has resolved with more than one profile
C11_Witness ==
    /\ runs = 1
    /\ ini.pc = "resolved"
    /\ Len(profile_list) > 1
    /\ current_profile = 1

\* the number of profiles the list held when the GetProfiles response of the
\* running init() arrived
ListedBefore == IF runs = 1 THEN 0 ELSE deviceProfiles

Axes == {"x", "y", "z"}

\* the range element of the response the try block of an axis reads:
\* AbsentRange when the PTZConfiguration, the limits or the element is missing
RawRange(ptz, axis) ==
    CASE ~ptz.present -> AbsentRange
      [] axis = "x" -> IF ptz.PanTiltLimits.present
                       THEN ptz.PanTiltLimits.XRange ELSE AbsentRange
      [] axis = "y" -> IF ptz.PanTiltLimits.present
                       THEN ptz.PanTiltLimits.YRange ELSE AbsentRange
      [] axis = "z" -> IF ptz.ZoomLimits.present
                       THEN ptz.ZoomLimits.XRange ELSE AbsentRange

\* a range element whose Min and Max are both numbers
Parsable(element) ==
    /\ element.kind = "range"
    /\ ~ParseFloat(element.Min).nan
    /\ ~ParseFloat(element.Max).nan

C13_MissingOrUnparsableRangeIsZero ==
    ini.profiles = "list" =>
        \A i \in 1..Len(ini.raw) : \A a \in Axes :
            ~Parsable(RawRange(ini.raw[i].PTZConfiguration, a)) =>
                /\ Len(profile_list) >= ListedBefore + i
                /\ profile_list[ListedBefore + i].ptz_range[a] = ZeroRange

\* C14: a range with numeric Min and Max is stored on its axis whatever the
\* ranges of the other axes are.
C14_AxesAreIndependent ==
    ini.profiles = "list" =>
        \A i \in 1..Len(ini.raw) : \A a \in Axes :
            LET element == RawRange(ini.raw[i].PTZConfiguration, a)
            IN  Parsable(element) =>
                    /\ Len(profile_list) >= ListedBefore + i
                    /\ profile_list[ListedBefore + i].ptz_range[a] =
                           [min |-> ParseFloat(element.Min),
                            max |-> ParseFloat(element.Max)]

\* the X range of the first entry is missing, its Y range is malformed and
\* its zoom range is stored
C14_Witness ==
    /\ ini.profiles = "list"
    /\ RawRange(ini.raw[1].PTZConfiguration, "x") = AbsentRange
    /\ ini.raw[1].PTZConfiguration.PanTiltLimits.present
    /\ ~Parsable(RawRange(ini.raw[1].PTZConfiguration, "y"))
    /\ Parsable(RawRange(ini.raw[1].PTZConfiguration, "z"))
    /\ profile_list[ListedBefore + 1].ptz_range["z"] =
           [min |-> Num(-1), max |-> Num(1)]
    /\ profile_list[ListedBefore + 1].ptz_range["x"] = ZeroRange

\* the GetStreamUri requests the running init() has issued
StreamsSent ==
    LET IsStream(r) == r.cmd = "GetStreamUri" IN SelectSeq(sent, IsStream)

\* one request for every profile of the list, in list order, and for each
\* protocol in the order UDP, HTTP, RTSP
StreamsExpected(list) ==
    LET n == Len(protocol_list) IN
    [k \in 1..(Len(list) * n) |->
        StreamReq(list[((k - 1) \div n) + 1].token,
                  protocol_list[((k - 1) % n) + 1])]

\* the requests issued so far are the first of the expected ones, the last
\* of them is the only request in flight, and init() resolves when all of
\* them have been made
StreamsInOrder ==
    LET expected == StreamsExpected(profile_list) IN
    /\ Len(StreamsSent) <= Len(expected)
    /\ \A k \in 1..Len(StreamsSent) : StreamsSent[k] = expected[k]
    /\ Len(wire) <= 1
    /\ ini.pc = "streams" =>
           /\ Pending("GetStreamUri")
           /\ Head(wire) = StreamsSent[Len(StreamsSent)]
    /\ ini.pc = "resolved" => (StreamsSent = expected /\ wire = <<>>)

\* C15: during stream resolution there is exactly one GetStreamUri attempt
\* for every profile in list order and each of UDP, HTTP, RTSP in that
\* order, each issued after the previous one completed; when every issued
\* request completes, init() resolves after the last attempt.
C15_StreamsOneByOneThenResolve ==
    /\ []StreamsInOrder
    /\ (ini.pc = "streams") ~> (ini.pc = "resolved")

\* a second init() has resolved after a request for each of the profiles of
\* the list, those of the first init() included, one of which failed
C15_Witness ==
    /\ ini.pc = "resolved"
    /\ runs = 2
    /\ streamFaults = 1
    /\ Len(profile_list) > deviceProfiles
    /\ Len(StreamsSent) = Len(profile_list) * Len(protocol_list)
    /\ wire = <<>>

\* the URI the device reports for profile i of the list and the protocol
\* with 0-based index qi, as init() stores it
StreamUriOf(i, qi) ==
    GetUri(keepAddr, ReportedUri(profile_list[i].token,
                                 protocol_list[qi + 1]))

\* the URI stored for profile i of the list and protocol index qi
StreamAt(list, i, qi) == list[i].stream[ToLowerCase(protocol_list[qi + 1])]

AllNumbers(o) ==
    \A a \in Axes : ~o.ptz_range[a].min.nan /\ ~o.ptz_range[a].max.nan

\* the step of a changeProfile call: the list is unchanged; when the
\* argument names the profile at position p, that profile is current and its
\* JSON copy (equal to the profile when its bounds are numbers) is returned;
\* otherwise null is returned and the current profile is unchanged
ChangeProfileStep(valid, p) ==
    /\ profile_list' = profile_list
    /\ obs'.op = "changeProfile"
    /\ IF valid
       THEN /\ current_profile' = p
            /\ obs'.ret = <<JsonCopy(profile_list[p])>>
            /\ AllNumbers(profile_list[p]) => obs'.ret = <<profile_list[p]>>
       ELSE /\ obs'.ret = <<>>
            /\ current_profile' = current_profile

\* C17: changeProfile(indexOrToken) returns for every argument and never
\* modifies the profile list; for a valid list index or the token of a
\* listed profile that profile becomes current and a copy of it is returned,
\* in every other case null is returned and the current profile is unchanged.
C17_changeProfileFrame ==
    [][/\ \A index \in (-1)..MaxProfiles :
              changeProfile(index) =>
                  ChangeProfileStep(index \in 0..(Len(profile_list) - 1),
                                    index + 1)
       /\ \A token \in 0..(MaxProfiles + 1) :
              changeProfileByToken(token) =>
                  LET listed ==
                          {i \in 1..Len(profile_list) :
                               profile_list[i].token = token}
                  IN  ChangeProfileStep(listed # {},
                                        IF current_profile' \in listed
                                        THEN current_profile' ELSE 0)
       /\ \A arg \in OtherArguments :
              changeProfileOther(arg) => ChangeProfileStep(FALSE, 0)]_vars

\* changeProfile has selected the second profile of the list and returned
\* its copy
C17_Witness ==
    /\ obs.op = "changeProfile"
    /\ obs.res = "returned"
    /\ selected = 2
    /\ current_profile = 2
    /\ obs.ret = <<profile_list[2]>>

\* C18: ptzMove and ptzStop reject without handing any command to the PTZ
\* service when there is no current profile or no PTZ service; otherwise
\* they hand it exactly one command (continuousMove, stop) that carries the
\* token of the current profile.
C18_PtzNeedsProfileAndService ==
    obs.op \in {"ptzMove", "ptzStop"} =>
        IF current_profile = 0 \/ ~services["ptz"]
        THEN obs.res = "rejected" /\ obs.cmds = <<>>
        ELSE /\ obs.res = "sent"
             /\ Len(obs.cmds) = 1
             /\ obs.cmds[1].method =
                    (IF obs.op = "ptzMove" THEN "continuousMove" ELSE "stop")
             /\ obs.cmds[1].ProfileToken =
                    profile_list[current_profile].token

\* ptzMove has sent its command for the second profile, selected before
C18_Witness ==
    /\ obs.op = "ptzMove"
    /\ obs.res = "sent"
    /\ current_profile = 2
    /\ obs.cmds = <<[method |-> "continuousMove", ProfileToken |-> 2]>>
    /\ ptz_moving

\* the operations a caller has in flight: its own and the nested ones of
\* getCameraCapabilities
OpsInFlight(c) ==
    {calls[c].inst.op}
        \cup {calls[c].tasks[i].inst.op : i \in 1..Len(calls[c].tasks)}

\* C19: on a session whose capabilities carried no Imaging address, an
\* imaging operation called with a valid profile index rejects at the call
\* (the device does not support imaging; a set operation whose params is
\* not an object is rejected for that), so none is ever awaiting a request,
\* and the current profile is the one of before the call.
C19_NoImagingRejectsAtOnce ==
    ~services["imaging"] =>
        /\ \A c \in Callers : OpsInFlight(c) \cap ImagingOps = {}
        /\ (last.op \in ImagingOps /\ ValidIndex(profile_list, last.idx)) =>
               /\ last.res = "rejected"
               /\ last.err \in {"unsupported", "params"}
               /\ last.op # "setImagingSettings" => last.err = "unsupported"
               /\ current_profile = last.atCall

\* getImagingOptions(1) was rejected on a session without imaging while the
\* first profile was current, and the first profile is current
C19_Witness ==
    /\ ~services["imaging"]
    /\ last.op = "getImagingOptions"
    /\ last.idx = 1
    /\ last.res = "rejected"
    /\ last.err = "unsupported"
    /\ last.atCall = 1
    /\ current_profile = 1

\* C20 (as claimed): a call of a session operation never has a device
\* command in flight that already failed in that call; in particular
\* setVideoEncoderConfiguration does not issue SetVideoEncoderConfiguration
\* again after it failed.
C20_FailedCommandIsNotResent ==
    \A c \in Callers :
        AwaitsCommand(calls[c].inst) =>
            CommandAt(calls[c].inst) \notin calls[c].inst.failed

\* ------------------------------------------------------------------------
\* The envelope codec (lib/modules/soap.js)
\* ------------------------------------------------------------------------
\* a service makes at most this many requests, and the clock (Date.now())
\* advances at most this far
MaxRequests == 2
MaxClock == 1

\* the user and pass a caller can give: not there, '' or a text
Users == {Undefined, "", "admin"}
Passwords == {Undefined, "", "secret"}
\* the values mCrypto.randomBytes(16) can return
Nonces == {1, 2}
\* the commands of the model: the Media service sends GetProfiles with
\* this.information as fourth argument, and GetSnapshotUri without
Methods == {"GetProfiles", "GetSnapshotUri"}
InfoOf(method) ==
    IF method = "GetProfiles" THEN Manufacturers ELSE {Undefined}

\* if(x) for a text that may not be there
Truthy(x) == x # Undefined /\ x # ""

\* buffer.toString("base64"); Buffer.from(text, "base64") is text.b64
ToBase64(raw) == [b64 |-> raw]
\* new Date(ms).toISOString()
ToISOString(ms) == [iso |-> ms]
\* the bytes of Buffer.from(text, "utf8") for a string
Utf8(text) == IF text = "" THEN <<>> ELSE <<text>>
\* mCrypto.createHash("sha1").update(bytes).digest().toString("base64")
Sha1Base64(bytes) == [sha1 |-> bytes]

\* the call threw
DigestThrew ==
    [threw |-> TRUE, date |-> ToISOString(0), digest |-> Sha1Base64(<<>>),
     nonce_base64 |-> ToBase64(0)]

\* (variant: the nonce is not the one drawn for this call)
GeneratePasswordDigestFixedNonce(diff, password, random, now) ==
    IF password = Undefined
    THEN DigestThrew
    ELSE [threw |-> FALSE,
          date |-> ToISOString(now + diff),
          digest |-> Sha1Base64(<<1, ToISOString(now + diff), Utf8(password)>>),
          nonce_base64 |-> ToBase64(1)]

\* _generatePasswordDigest(diff, password), where random is what
\* randomBytes(16) returns and now is Date.now(); Buffer.from(password,
\* "utf8") throws a TypeError for a password that is not a string
GeneratePasswordDigest(diff, password, random, now) ==
    LET nonce == ToBase64(random)
        created == ToISOString(now + diff)
    IN  IF password = Undefined
        THEN DigestThrew
        ELSE [threw |-> FALSE,
              date |-> created,
              digest |-> Sha1Base64(<<nonce.b64, created,
                                      Utf8(password)>>),
              nonce_base64 |-> nonce]

\* _createSoapUserToken(diff, user, pass): the Security element
CreateSoapUserToken(diff, user, pass, random, now) ==
    LET d == GeneratePasswordDigest(diff, pass, random, now)
    IN  [threw |-> d.threw, Username |-> user, Password |-> d.digest,
         Nonce |-> d.nonce_base64, Created |-> d.date]

\* (variant: the header is built when a user or a password is given)
CreateRequestSoapUserOrPass(params, random, now) ==
    IF Truthy(params.user) \/ Truthy(params.pass)
    THEN LET token == CreateSoapUserToken(params.diff, params.user,
                                          params.pass, random, now)
         IN  IF token.threw
             THEN [threw |-> TRUE, header |-> <<>>, body |-> ""]
             ELSE [threw |-> FALSE, header |-> <<token>>,
                   body |-> params.body]
    ELSE [threw |-> FALSE, header |-> <<>>, body |-> params.body]

\* createRequestSoap(params): the envelope, its Header empty or holding the
\* Security element
CreateRequestSoap(params, random, now) ==
    IF Truthy(params.user)
    THEN LET token == CreateSoapUserToken(params.diff, params.user,
                                          params.pass, random, now)
         IN  IF token.threw
             THEN [threw |-> TRUE, header |-> <<>>, body |-> ""]
             ELSE [threw |-> FALSE, header |-> <<token>>,
                   body |-> params.body]
    ELSE [threw |-> FALSE, header |-> <<>>, body |-> params.body]


\* ------------------------------------------------------------------------
\* Responses as parse() returns them
\* ------------------------------------------------------------------------
\* a property that may not be there: <<>> or <<value>>
Opt(S) == {<<>>} \cup {<<x>> : x \in S}

\* a Text element without attributes is parsed as a string, one with
\* attributes (xml:lang) as an object whose '_' is the text
\* the Fault elements: Reason and Code may be missing, and so may the Text
\* of Reason, the Value of Code, its Subcode and the Value of Subcode
Faults ==
    LET TextNodes ==
            {[obj |-> o, text |-> "Sender not authorized"] : o \in BOOLEAN}
        Subcodes == Opt([Value : Opt({"ter:NotAuthorized"})])
    IN  [Reason : Opt([Text : Opt(TextNodes)]),
         Code : Opt([Value : Opt({"env:Sender"}), Subcode : Subcodes])]
\* a Body element with children: its Fault, and the method whose
\* <method>Response element it holds ("none": no such element)
Bodies == [Fault : Opt(Faults), key : Methods \cup {"none"}]

\* what the accumulated text of a response parses to: a parser error, null
\* (no text), a tree without Body, a tree whose Body is empty (''), or a
\* tree with a Body
Results ==
    {[kind |-> k, body |-> NoBody] : k \in {"error", "null", "noBody",
                                            "emptyBody"}}
        \cup {[kind |-> "tree", body |-> b] : b \in Bodies}

\* res.statusCode and res.statusMessage
Statuses == {200, 500}
StatusMessage(code) == IF code = 200 THEN "OK" ELSE "Internal Server Error"

\* a text as a sequence of the parts it was concatenated from; obj: the
\* value is an object, not a text
NoReason == [obj |-> FALSE, parts |-> <<>>]
Text(parts) == [obj |-> FALSE, parts |-> parts]
TextOf(node) == [obj |-> node.obj, parts |-> <<node.text>>]
\* String(value), as new Error(value) takes its message
String(value) == IF value.obj THEN <<"[object Object]">> ELSE value.parts

\* _getFaultReason(r): every read of a property of undefined throws, and the
\* catch keeps the reason assigned so far
GetFaultReason(r) ==
    IF r.kind # "tree" \/ r.body.Fault = <<>>
    THEN NoReason
    ELSE LET fault == r.body.Fault[1]
         IN  IF fault.Reason = <<>>
             THEN NoReason
             ELSE IF fault.Reason[1].Text # <<>>
             THEN TextOf(fault.Reason[1].Text[1])
             ELSE IF fault.Code = <<>>
             THEN NoReason
             ELSE LET code_el == fault.Code[1]
                  IN  IF code_el.Value = <<>>
                      THEN NoReason
                      ELSE IF code_el.Subcode = <<>>
                      THEN Text(code_el.Value)
                      ELSE IF code_el.Subcode[1].Value = <<>>
                      THEN Text(code_el.Value)
                      ELSE Text(code_el.Value \o <<" ">>
                                    \o code_el.Subcode[1].Value)

\* _parseResponseResult(method_name, res): the Body (<<body>>), or null or
\* undefined (<<>>); res['Body'] throws a TypeError when res is null
ParseResponseResult(method_name, res) ==
    IF res.kind = "null"
    THEN [threw |-> TRUE, data |-> <<>>]
    ELSE IF res.kind # "tree"
    THEN [threw |-> FALSE, data |-> <<>>]
    ELSE IF res.body.key = method_name
    THEN [threw |-> FALSE, data |-> <<res.body>>]
    ELSE [threw |-> FALSE, data |-> <<>>]

\* the promise of requestCommand as it settles
Resolved(data) ==
    [kind |-> "resolved", error |-> "", message |-> <<>>, data |-> <<data>>]
Rejected(error, message) ==
    [kind |-> "rejected", error |-> error, message |-> message,
     data |-> <<>>]

\* res.statusCode + ' ' + res.statusMessage
StatusLine(code) == <<ToString(code), " ", StatusMessage(code)>>

\* the msg that _request reads from the body of a response that is not a 200
ReasonText(parsed) ==
    IF parsed.kind # "tree" \/ parsed.body.Fault = <<>>
    THEN <<>>
    ELSE LET fault == parsed.body.Fault[1]
         IN  IF fault.Reason = <<>> \/ fault.Reason[1].Text = <<>>
             THEN <<>>
             ELSE <<fault.Reason[1].Text[1].text>>

\* the 'end' handler of _request: resolve(xml) for a 200, else the
\* rejection; parsed is what the text of the response parses to
RequestEnd(code, parsed) ==
    IF code = 200
    THEN [resolved |-> TRUE, error |-> Rejected("", <<>>)]
    ELSE IF parsed.kind \in {"null", "error"} \/ ReasonText(parsed) = <<>>
    THEN [resolved |-> FALSE, error |-> Rejected("Error", StatusLine(code))]
    ELSE [resolved |-> FALSE,
          error |-> Rejected("Error", StatusLine(code) \o <<" - ">>
                                          \o ReasonText(parsed))]

UnsupportedMessage(method_name) ==
    <<"The device seems to not support the ", method_name, "() method.">>

\* the continuations of requestCommand after _request settled as sent says
RequestCommandThen(method_name, sent_, parsed) ==
    IF ~sent_.resolved
    THEN sent_.error
    ELSE IF parsed.kind = "error"
    THEN Rejected("SAXError", <<"not well-formed">>)
    ELSE LET fault == GetFaultReason(parsed)
         IN  IF fault.obj \/ fault.parts # <<>>
             THEN Rejected("Error", String(fault))
             ELSE LET p == ParseResponseResult(method_name, parsed)
                  IN  IF p.threw
                      THEN Rejected("TypeError",
                                    <<"Cannot read properties of null">>)
                      ELSE IF p.data # <<>>
                      THEN Resolved(p.data[1])
                      ELSE Rejected("Error", UnsupportedMessage(method_name))


\* ------------------------------------------------------------------------
\* A service and its requests through requestCommand
\* ------------------------------------------------------------------------
\* this.oxaddr of the service: mUrl.parse(this.xaddr)
oxaddr == [hostname |-> DeviceHost, pathname |-> "/onvif/media_service"]

\* opts of _request
RequestOptions(ox, method_name) ==
    [hostname |-> ox.hostname, path |-> ox.pathname, method |-> "POST"]

\* the service and the clock, with no record of a request
FreshCall ==
    [NoSoap EXCEPT !.user = soap.user, !.pass = soap.pass,
                   !.now = soap.now, !.calls = soap.calls]

\* no request is in flight, and the handlers that the operation attached
\* to its settled promise have run
Quiet ==
    /\ soap.pc \in {"idle", "settled", "closed"}
    /\ soap.pc = "settled" => soap.handlers = "done"

deviceVars ==
    <<sessVars, initVars, calls, last, obs, selected, busy, snap, auth>>

\* setAuth(user, pass) of a service
setAuth(user, pass) ==
    /\ Quiet
    /\ soap' = [FreshCall EXCEPT !.user = OrEmpty(user),
                                 !.pass = OrEmpty(pass)]
    /\ UNCHANGED deviceVars

\* mOnvifSoap.createRequestSoap(params), called with any user and pass; the
\* clock reads any time that is not before its last reading
createRequestSoap(user, pass) ==
    /\ Quiet
    /\ \E random \in Nonces : \E now \in soap.now..MaxClock :
           LET params == [body |-> "", diff |-> time_diff,
                          user |-> user, pass |-> pass]
           IN  soap' = [FreshCall EXCEPT
                           !.now = now,
                           !.params = [user |-> user, pass |-> pass],
                           !.envelope = CreateRequestSoap(params, random, now),
                           !.drawn = random]
    /\ UNCHANGED deviceVars

\* an operation of the service: _createRequestSoap(body), then
\* requestCommand(this.getRequestParams(), method, soap[, information]),
\* whose _request hands one POST to the network
Request(method) ==
    /\ Quiet
    /\ soap.calls < MaxRequests
    /\ \E info \in InfoOf(method) : \E random \in Nonces :
       \E now \in soap.now..MaxClock :
           LET params == [body |-> method, diff |-> time_diff,
                          user |-> soap.user, pass |-> soap.pass]
               envelope == CreateRequestSoap(params, random, now)
               opts == RequestOptions(oxaddr, method)
               call == [FreshCall EXCEPT
                           !.now = now, !.calls = soap.calls + 1,
                           !.method = method, !.info = info,
                           !.params = [user |-> soap.user,
                                       pass |-> soap.pass],
                           !.envelope = envelope, !.drawn = random]
           IN  soap' =
                   IF envelope.threw
                   THEN [call EXCEPT
                            !.pc = "settled", !.settles = 1,
                            !.outcome = Rejected("TypeError", <<>>)]
                   ELSE [call EXCEPT !.pc = "sent", !.path = opts.path,
                                     !.requests = 1]
    /\ UNCHANGED deviceVars

\* the callback of httpLib.request: the status line and the headers arrived
ResponseBegins(code) ==
    /\ soap.pc = "sent"
    /\ soap' = [soap EXCEPT !.pc = "receiving", !.status = code]
    /\ UNCHANGED deviceVars

\* the 'end' handler and the continuations of requestCommand
Settle(parsed) ==
    /\ soap' = [soap EXCEPT
                   !.pc = "settled", !.result = parsed,
                   !.fault = IF soap.status = 200 /\ parsed.kind # "error"
                             THEN GetFaultReason(parsed) ELSE NoReason,
                   !.settles = @ + 1,
                   !.outcome = RequestCommandThen(
                       soap.method, RequestEnd(soap.status, parsed), parsed)]

\* 'end' of the response
End(parsed) ==
    /\ soap.pc = "receiving"
    /\ Settle(parsed)
    /\ UNCHANGED deviceVars

\* 'timeout' of the request: the socket was idle for HTTP_TIMEOUT, before
\* the response or within it; the handler calls req.abort()
Timeout ==
    /\ soap.pc \in {"sent", "receiving"}
    /\ soap' = [soap EXCEPT
                   !.timedOut = TRUE,
                   !.pc = IF soap.pc = "sent" THEN "aborted" ELSE "cut"]
    /\ UNCHANGED deviceVars

\* 'error' of the request: the connection failed, or the request was
\* aborted before its response ('socket hang up')
Error(cause) ==
    /\ \/ soap.pc \in {"sent", "receiving"} /\ cause = "ECONNRESET"
       \/ soap.pc = "aborted" /\ cause = "socket hang up"
    /\ soap' = [soap EXCEPT
                   !.pc = "settled", !.settles = @ + 1,
                   !.outcome = Rejected("Error",
                                        <<"Network Error: ", cause>>)]
    /\ UNCHANGED deviceVars

\* The request was aborted after its response began.  node's http client
\* then emits no 'error' on the request: it destroys the response
\* ('aborted' and 'close' on res, which have no listener here), and releases
\* before v16 still emit 'end' on res, with the text received so far (which
\* does not parse, or is empty).
EndAfterAbort(parsed) ==
    /\ soap.pc = "cut"
    /\ Settle(parsed)
    /\ UNCHANGED deviceVars

Close ==
    /\ soap.pc = "cut"
    /\ soap' = [soap EXCEPT !.pc = "closed"]
    /\ UNCHANGED deviceVars

\* promise.then((result) => { callback(null, result); }) of an operation
\* called with a callback: runs when the promise resolved; the callback
\* returns or throws
ThenCallback(throws) ==
    /\ soap.pc = "settled"
    /\ soap.handlers = "none"
    /\ soap.outcome.kind = "resolved"
    /\ soap' = [soap EXCEPT
                   !.callbacks = Append(@, "result"),
                   !.handlers = IF throws THEN "threw" ELSE "done"]
    /\ UNCHANGED deviceVars

\* .catch((error) => { callback(error); }) attached to the promise that
\* then() returned: runs when the operation's promise rejected and when
\* the handler of then() threw
CatchCallback ==
    /\ soap.pc = "settled"
    /\ \/ soap.handlers = "none" /\ soap.outcome.kind = "rejected"
       \/ soap.handlers = "threw"
    /\ soap' = [soap EXCEPT !.callbacks = Append(@, "error"),
                            !.handlers = "done"]
    /\ UNCHANGED deviceVars

\* a Media service of a session, with the clock offset the session measured
\* (0 when the device does not tell its time) and without credentials yet
InitSoap ==
    /\ keepAddr = FALSE
    /\ time_diff \in {0} \cup TimeDiffs
    /\ information \in Manufacturers
    /\ services = NewServices([k \in ServiceNames |-> FALSE], {"media"})
    /\ profile_list = <<>>
    /\ current_profile = 0
    /\ ptz_moving = FALSE
    /\ NoOps
    /\ selected = 0
    /\ ini = IdleRun
    /\ runs = 0
    /\ wire = <<>>
    /\ sent = <<>>
    /\ streamFaults = 0
    /\ deviceProfiles = 1

NextSoap ==
    \/ \E user \in Users : \E pass \in Passwords : setAuth(user, pass)
    \/ \E user \in Users : \E pass \in Passwords :
           createRequestSoap(user, pass)
    \/ \E method \in Methods : Request(method)
    \/ \E code \in Statuses : ResponseBegins(code)
    \/ \E parsed \in Results : End(parsed)
    \/ Timeout
    \/ \E cause \in {"ECONNRESET", "socket hang up"} : Error(cause)
    \/ \E parsed \in {r \in Results : r.kind \in {"error", "null"}} :
           EndAfterAbort(parsed)
    \/ Close
    \/ \E throws \in BOOLEAN : ThenCallback(throws)
    \/ CatchCallback

SpecSoap == InitSoap /\ [][NextSoap]_vars


\* ------------------------------------------------------------------------
\* Properties of the transport and of the codec
\* ------------------------------------------------------------------------
\* the promise of requestCommand rejected with a network error
NetworkError(outcome) ==
    /\ outcome.kind = "rejected"
    /\ outcome.message # <<>>
    /\ Head(outcome.message) = "Network Error: "

\* C21: when the timeout fires on a request whose response did not
\* complete, the request is aborted and the call rejects with a network
\* error, not with a fault or any other error; every requestCommand call
\* sends exactly one HTTP request and settles exactly once.
C21_TimeoutRejectsWithNetworkError ==
    /\ soap.method # "" => soap.requests = 1
    /\ soap.settles <= 1
    /\ (soap.timedOut /\ Quiet) =>
           /\ soap.settles = 1
           /\ NetworkError(soap.outcome)


\* the fault reason of a parsed response as it is meant to be extracted:
\* Reason.Text, else Code.Value followed by Subcode.Value, else none
ExpectedReason(r) ==
    IF r.kind # "tree" \/ r.body.Fault = <<>>
    THEN NoReason
    ELSE LET fault == r.body.Fault[1]
             value == IF fault.Code = <<>> THEN <<>> ELSE fault.Code[1].Value
             sub == IF fault.Code = <<>> \/ fault.Code[1].Subcode = <<>>
                    THEN <<>>
                    ELSE fault.Code[1].Subcode[1].Value
         IN  IF fault.Reason # <<>> /\ fault.Reason[1].Text # <<>>
             THEN TextOf(fault.Reason[1].Text[1])
             ELSE IF value = <<>>
             THEN NoReason
             ELSE IF sub = <<>>
             THEN Text(value)
             ELSE Text(value \o <<" ">> \o sub)

\* requestCommand settled on the complete response of a 200 that parsed
Settled200 ==
    /\ soap.pc = "settled"
    /\ soap.status = 200
    /\ ~soap.timedOut
    /\ soap.result.kind \notin {"none", "error"}

\* C22: for a 200 response requestCommand rejects with the fault reason
\* when the parsed body carries a fault; otherwise it resolves, with the
\* Body as data, exactly when the Body holds the <method>Response key, and
\* rejects with the unsupported-operation error when it does not.
C22_ResponseKeyDecides ==
    Settled200 =>
        LET r == soap.result
            reason == ExpectedReason(r)
        IN  IF reason # NoReason
            THEN soap.outcome = Rejected("Error", reason.parts)
            ELSE IF r.kind = "tree" /\ r.body.key = soap.method
            THEN soap.outcome = Resolved(r.body)
            ELSE soap.outcome =
                     Rejected("Error", UnsupportedMessage(soap.method))

\* C23: for every combination of presence of Reason, Reason.Text, Code,
\* Code.Value and Subcode.Value in Body.Fault, the extracted reason is
\* Reason.Text when present, otherwise Code.Value (followed by
\* Subcode.Value when present), and empty only when both are absent.
C23_FaultReasonByPresence ==
    (Settled200 /\ soap.result.kind = "tree") =>
        soap.fault = ExpectedReason(soap.result)


\* _request settled on the complete response of a status other than 200
SettledNot200 ==
    /\ soap.pc = "settled"
    /\ soap.status \notin {0, 200}
    /\ ~soap.timedOut
    /\ soap.result.kind # "none"

\* the parts of a message
PartsOf(message) == {message[i] : i \in 1..Len(message)}

\* C24: for a response that is not a 200 and whose body parses as a SOAP
\* fault, the rejection message holds the fault reason besides the status
\* code and text; without a parsable fault it is the status code and text.
C24_FaultReasonBeforeStatus ==
    SettledNot200 =>
        LET reason == ExpectedReason(soap.result)
        IN  /\ soap.outcome.kind = "rejected"
            /\ IF reason # NoReason
               THEN /\ PartsOf(reason.parts) \subseteq PartsOf(soap.outcome.message)
                    /\ soap.outcome.message # StatusLine(soap.status)
               ELSE soap.outcome.message = StatusLine(soap.status)


\* an envelope was built in the last step of the codec
Built == soap.drawn # 0

\* C25: every request built with a non-empty user name carries a
\* UsernameToken whose nonce, created timestamp and digest were generated
\* for this request: the nonce is the one drawn for it, the timestamp is the
\* clock as read for it plus the offset, and the digest is taken over them.
C25_TokenIsOfThisRequest ==
    (Built /\ Truthy(soap.params.user) /\ ~soap.envelope.threw) =>
        /\ soap.envelope.header # <<>>
        /\ LET token == soap.envelope.header[1]
               created == ToISOString(soap.now + time_diff)
           IN  /\ token.Username = soap.params.user
               /\ token.Nonce = ToBase64(soap.drawn)
               /\ token.Created = created
               /\ token.Password =
                      Sha1Base64(<<soap.drawn, created, Utf8(soap.params.pass)>>)

\* the second request of a service, with another nonce and at another time
\* than the first could have
C25_Witness ==
    /\ soap.calls = 2
    /\ soap.pc = "sent"
    /\ soap.user = "admin"
    /\ soap.drawn = 2
    /\ soap.now = 1
    /\ soap.envelope.header # <<>>

\* C26: the envelope holds a Security header with a UsernameToken exactly
\* when the user name is not empty; without a user name the Header is empty
\* whatever the password is.
C26_SecurityIffUser ==
    (Built /\ ~soap.envelope.threw) =>
        (soap.envelope.header # <<>> <=> Truthy(soap.params.user))

\* a request sent without user name and with a password
C26_Witness ==
    /\ soap.pc = "sent"
    /\ soap.params.user = ""
    /\ soap.params.pass = "secret"
    /\ soap.envelope.header = <<>>

\* C27: with a user name and no password the envelope is still built, its
\* digest taken with the password as an empty byte sequence, and nothing is
\* thrown.
C27_AbsentPasswordIsEmpty ==
    (Built /\ Truthy(soap.params.user) /\ soap.params.pass = Undefined) =>
        /\ ~soap.envelope.threw
        /\ soap.envelope.header # <<>>
        /\ soap.envelope.header[1].Password =
               Sha1Base64(<<soap.drawn, ToISOString(soap.now + time_diff),
                            <<>>>>)

\* the commands the vendor exception names
QuirkCommands == {"GetProfiles", "GetStreamUri", "ContinuousMove", "Stop"}

\* C28: a request goes to another path than the standard path of the
\* service exactly when the manufacturer of the device information is a
\* known non-conformant vendor (here: any manufacturer of the model) and the
\* command is GetProfiles, GetStreamUri or a PTZ move or stop.
C28_VendorPathQuirk ==
    soap.pc = "sent" =>
        (soap.path # oxaddr.pathname
            <=> (soap.info \in Manufacturers /\ soap.method \in QuirkCommands))


\* ------------------------------------------------------------------------
\* Properties of the stored URIs and of fetchSnapshot
\* ------------------------------------------------------------------------
\* C29: with address pinning on, a stream URI reported with host H and path
\* P is stored with the configured address as host and with path exactly P;
\* with pinning off the stored URI is exactly the reported URI.
C29_PinnedUriKeepsPath ==
    \A i \in 1..Len(profile_list) : \A qi \in 0..(Len(protocol_list) - 1) :
        LET uri == StreamAt(profile_list, i, qi)
            reported == ReportedUri(profile_list[i].token,
                                    protocol_list[qi + 1])
        IN  uri # EmptyUri =>
                IF keepAddr
                THEN uri.host = Address /\ uri.path = reported.path
                ELSE uri = reported


\* ------------------------------------------------------------------------
\* Snapshot URIs: _mediaGetSnapshotUri() and fetchSnapshot()
\* ------------------------------------------------------------------------
\* the snapshot URI the device reports for a profile token
ReportedSnapshotUri(token) ==
    [scheme |-> "http:", host |-> DeviceHost, path |-> <<"/", token, "jpg">>]

\* _getSnapshotUri(directUri)
GetSnapshotUri(keep, directUri) ==
    IF ~keep THEN directUri
    ELSE [scheme |-> directUri.scheme, host |-> Address,
          path |-> <<"/">> \o directUri.path]

\* the loop of _mediaGetSnapshotUri after profile_index++
SnapshotStep(list, pi) ==
    IF pi + 1 <= Len(list)
    THEN [pc |-> "awaiting", profile_index |-> pi]
    ELSE NoSnap

\* _mediaGetSnapshotUri(): requests the snapshot URI of the first profile,
\* or resolves when no profile is listed
mediaGetSnapshotUri ==
    /\ snap.pc = "idle"
    /\ snap' = SnapshotStep(profile_list, 0)
    /\ obs' = NoObs
    /\ last' = NoEvent
    /\ UNCHANGED <<sessVars, initVars, calls, selected, busy, soap, auth>>

\* the callback of this.services.media.getSnapshotUri(params, ...): an
\* error, a result with the Uri ("ok"), or a result without MediaUri, whose
\* read throws and is caught
GetSnapshotUriDone(resp) ==
    /\ snap.pc = "awaiting"
    /\ LET i == snap.profile_index + 1
       IN  profile_list' =
               IF resp = "ok"
               THEN [profile_list EXCEPT ![i].snapshot =
                        GetSnapshotUri(keepAddr,
                            ReportedSnapshotUri(profile_list[i].token))]
               ELSE profile_list
    /\ snap' = SnapshotStep(profile_list, snap.profile_index + 1)
    /\ obs' = NoObs
    /\ last' = NoEvent
    /\ UNCHANGED <<keepAddr, time_diff, information, services,
                   current_profile, ptz_moving, initVars, calls, selected,
                   busy, soap, auth>>

\* the Content-Type headers of a snapshot response, in pieces: none, an
\* image, a text, another type, and types whose parameter holds "image/"
ContentTypes ==
    {<<>>, <<"image/", "jpeg">>, <<"text/", "plain">>,
     <<"application/", "json">>,
     <<"text/", "html; src=", "image/", "png">>,
     <<"application/", "octet-stream; kind=", "image/", "jpeg">>}

\* res.on('end') of fetchSnapshot: what the promise settles with;
\* ct.match(/image\//) finds "image/" anywhere in the header value,
\* ct.match(/^text\//) only at its start
SnapshotEnd(statusCode, header, body) ==
    IF statusCode = 200
    THEN LET ct == IF header = <<>> THEN <<"image/", "jpeg">> ELSE header
         IN  IF \E i \in 1..Len(ct) : ct[i] = "image/"
             THEN [kind |-> "resolved", message |-> <<>>, body |-> body]
             ELSE IF ct[1] = "text/"
             THEN [kind |-> "rejected", message |-> <<body>>, body |-> ""]
             ELSE [kind |-> "rejected",
                   message |-> <<"Unexpected data: ">> \o ct, body |-> ""]
    ELSE [kind |-> "rejected",
          message |-> StatusLine(statusCode), body |-> ""]

\* the response to the GET of fetchSnapshot has ended
SnapshotResponse(statusCode, header, body) ==
    /\ obs.op = "fetchSnapshot"
    /\ obs.res = "sent"
    /\ obs' = [obs EXCEPT
                  !.op = "snapshotResponse",
                  !.res = SnapshotEnd(statusCode, header, body).kind,
                  !.ret = <<[statusCode |-> statusCode, header |-> header,
                             sent |-> body,
                             settled |-> SnapshotEnd(statusCode, header,
                                                     body)]>>]
    /\ last' = NoEvent
    /\ UNCHANGED <<sessVars, initVars, calls, selected, busy, soap, snap, auth>>

\* a session that was only constructed, and sessions whose init() resolved,
\* constructed from an address or from the URL of the Device service
InitSnapshot ==
    /\ keepAddr \in BOOLEAN
    /\ time_diff = 0
    /\ ptz_moving = FALSE
    /\ wire = <<>>
    /\ sent = <<>>
    /\ streamFaults = 0
    /\ \/ /\ information = Null
          /\ services = [k \in ServiceNames |-> FALSE]
          /\ profile_list = <<>>
          /\ current_profile = 0
          /\ ini = IdleRun
          /\ runs = 0
          /\ deviceProfiles = 1
       \/ \E n \in 1..MaxProfiles :
              LET profiles == [i \in 1..n |-> RawProfile(i)]
              IN  /\ information \in Manufacturers
                  /\ services = NewServices([k \in ServiceNames |-> FALSE],
                                            {"media"})
                  /\ profile_list =
                         Streamed(PushProfiles(<<>>, profiles), keepAddr)
                  /\ current_profile = FirstIfNone(0, <<>>, profiles)
                  /\ ini = Resolve([IdleRun EXCEPT !.time = "err",
                                                   !.capsSeen = TRUE,
                                                   !.XAddr = {"media"},
                                                   !.profiles = "list"])
                  /\ runs = 1
                  /\ deviceProfiles = n
    /\ NoOps
    /\ selected = current_profile

NextSnapshot ==
    \/ mediaGetSnapshotUri
    \/ \E resp \in {"error", "ok", "noUri"} : GetSnapshotUriDone(resp)
    \/ /\ \E index \in 0..MaxProfiles : changeProfile(index)
       /\ UNCHANGED <<busy, soap, snap, auth>>
    \/ fetchSnapshot /\ UNCHANGED <<busy, soap, snap, auth>>
    \/ \E statusCode \in Statuses, header \in ContentTypes,
          body \in {"JFIF", "Unauthorized"} :
           SnapshotResponse(statusCode, header, body)

SpecSnapshot == InitSnapshot /\ [][NextSnapshot]_vars

\* C30: fetchSnapshot rejects without handing any HTTP request to the
\* network when there is no current profile or when the current profile has
\* no resolved snapshot URI; otherwise, and only then, it sends one GET to
\* that URI.
C30_SnapshotNeedsProfileAndUri ==
    obs.op = "fetchSnapshot" =>
        IF current_profile = 0
        THEN obs.res = "rejected" /\ obs.cmds = <<>>
        ELSE IF profile_list[current_profile].snapshot = EmptyUri
        THEN obs.res = "rejected" /\ obs.cmds = <<>>
        ELSE /\ obs.res = "sent"
             /\ obs.cmds =
                    SnapshotGet(profile_list[current_profile].snapshot)

\* fetchSnapshot rejected on the second profile, whose snapshot request
\* failed after the one of the first profile had succeeded
C30_Witness ==
    /\ obs.op = "fetchSnapshot"
    /\ obs.res = "rejected"
    /\ current_profile = 2
    /\ profile_list[1].snapshot # EmptyUri
    /\ profile_list[2].snapshot = EmptyUri


\* C31: for a snapshot response with status 200, fetchSnapshot resolves with
\* the body when the Content-Type is image/* or is missing, rejects with the
\* body as error message when it is text/*, and rejects with an
\* unexpected-content error for any other type; any other status rejects
\* with the status code and text.
C31_SnapshotClassifiedByContentType ==
    obs.op = "snapshotResponse" =>
        LET r == obs.ret[1]
            out == r.settled
        IN  IF r.statusCode # 200
            THEN /\ out.kind = "rejected"
                 /\ out.message = <<ToString(r.statusCode), " ",
                                    StatusMessage(r.statusCode)>>
            ELSE IF r.header = <<>> \/ r.header[1] = "image/"
            THEN out.kind = "resolved" /\ out.body = r.sent
            ELSE IF r.header[1] = "text/"
            THEN out.kind = "rejected" /\ out.message = <<r.sent>>
            ELSE /\ out.kind = "rejected"
                 /\ out.message = <<"Unexpected data: ">> \o r.header


\* ------------------------------------------------------------------------
\* The constructor and its parameter
\* ------------------------------------------------------------------------
\* a property that params does not have
Absent == [t |-> "absent", v |-> <<>>]

\* 'http://' + this.address + '/onvif/device_service'
XaddrOf(address) ==
    [scheme |-> "http:", host |-> address, path |-> "/onvif/device_service"]

\* the values new OnvifDevice(params) is called with: values that are not
\* objects, an array, and objects with or without each property; a
\* property is absent, a number or a string (the value of a number that
\* stands where a string is expected is left out), and the xaddr a caller
\* passes is the URL of the Device service
ConstructorParams ==
    LET NotAString == [t |-> "number", v |-> <<>>]
        Property(t, values) == {[t |-> t, v |-> <<x>>] : x \in values}
    IN  {[type |-> ty, xaddr |-> Absent, address |-> Absent,
          port |-> Absent, protocol |-> Absent, user |-> Absent,
          pass |-> Absent]
            : ty \in {"undefined", "null", "string", "array"}}
        \cup [type : {"object"},
              xaddr : {Absent, NotAString}
                          \cup Property("string", {XaddrOf(DeviceHost)}),
              address : {Absent, NotAString}
                          \cup Property("string", {Address}),
              port : {Absent} \cup Property("number", {0, 8080}),
              protocol : {Absent} \cup Property("string", {"https:"}),
              user : {Absent} \cup Property("string", {"admin"}),
              pass : {Absent} \cup Property("string", {"secret"})]

\* what the constructor leaves: it threw, or the fields of the session
Thrown ==
    [threw |-> TRUE, xaddr |-> <<>>, address |-> "", keepAddr |-> FALSE,
     port |-> 80, protocol |-> "", user |-> "", pass |-> "",
     services |-> {}]
Constructed(params, xaddr, address, keep) ==
    [threw |-> FALSE, xaddr |-> <<xaddr>>, address |-> address,
     keepAddr |-> keep,
     port |-> IF params.port.t = "number" /\ params.port.v[1] # 0
              THEN params.port.v[1] ELSE 80,
     protocol |-> IF params.protocol.t = "string"
                  THEN params.protocol.v[1] ELSE "http:",
     user |-> IF params.user.t = "string" THEN params.user.v[1] ELSE "",
     pass |-> IF params.pass.t = "string" THEN params.pass.v[1] ELSE "",
     services |-> {"device"}]

\* (variant: the address is looked at before the xaddr)
OnvifDeviceAddressFirst(params) ==
    IF params.type \notin {"object", "array"} THEN Thrown
    ELSE IF params.address.t = "string"
    THEN Constructed(params, XaddrOf(params.address.v[1]),
                     params.address.v[1], TRUE)
    ELSE IF params.xaddr.t = "string"
    THEN Constructed(params, params.xaddr.v[1], params.xaddr.v[1].host,
                     FALSE)
    ELSE Thrown

\* function OnvifDevice(params)
OnvifDeviceOf(params) ==
    IF params.type \notin {"object", "array"} THEN Thrown
    ELSE IF params.xaddr.t = "string"
    THEN Constructed(params, params.xaddr.v[1], params.xaddr.v[1].host,
                     FALSE)
    ELSE IF params.address.t = "string"
    THEN Constructed(params, XaddrOf(params.address.v[1]),
                     params.address.v[1], TRUE)
    ELSE Thrown

\* new OnvifDevice(params)
NewOnvifDevice(params) ==
    /\ obs.op = "none"
    /\ obs' = [NoObs EXCEPT
                  !.op = "OnvifDevice",
                  !.res = IF OnvifDeviceOf(params).threw
                          THEN "thrown" ELSE "constructed",
                  !.ret = <<params, OnvifDeviceOf(params)>>]
    /\ keepAddr' = OnvifDeviceOf(params).keepAddr
    /\ auth' = [auth EXCEPT !.user = OnvifDeviceOf(params).user,
                            !.pass = OnvifDeviceOf(params).pass]
    /\ UNCHANGED <<time_diff, information, services, profile_list,
                   current_profile, ptz_moving, initVars, calls, last,
                   selected, busy, soap, snap>>

\* before the constructor has run: no service, no request
InitConstructor ==
    /\ Init
    /\ keepAddr = FALSE
    /\ deviceProfiles = 1

NextConstructor == \E params \in ConstructorParams : NewOnvifDevice(params)

SpecConstructor == InitConstructor /\ [][NextConstructor]_vars

\* C32: constructing a session throws, before any request is made and
\* without creating a service, if and only if the parameter is not an
\* object or carries neither a string xaddr nor a string address; when both
\* are given the xaddr is used and the address ignored; port defaults to 80
\* and protocol to 'http:'.
C32_ConstructorValidatesParams ==
    obs.op = "OnvifDevice" =>
        LET params == obs.ret[1]
            device == obs.ret[2]
            valid == /\ params.type = "object"
                     /\ \/ params.xaddr.t = "string"
                        \/ params.address.t = "string"
        IN  /\ device.threw <=> ~valid
            /\ sent = <<>> /\ wire = <<>>
            /\ device.threw => device.services = {}
            /\ ~device.threw =>
                   /\ device.services = {"device"}
                   /\ params.xaddr.t = "string" =>
                          /\ device.xaddr = params.xaddr.v
                          /\ device.address = params.xaddr.v[1].host
                          /\ ~keepAddr
                   /\ params.port = Absent => device.port = 80
                   /\ params.protocol = Absent => device.protocol = "http:"

\* a session constructed from both an xaddr and an address, without port
\* and protocol
C32_Witness ==
    /\ obs.op = "OnvifDevice"
    /\ obs.res = "constructed"
    /\ obs.ret[1].xaddr.t = "string"
    /\ obs.ret[1].address.t = "string"
    /\ obs.ret[1].port = Absent
    /\ obs.ret[1].protocol = Absent
    /\ obs.ret[2].address = DeviceHost


\* ------------------------------------------------------------------------
\* getCameraCapabilities(): the per-profile tasks
\* ------------------------------------------------------------------------
\* the params the catch handler of getVideoEncoderConfiguration and of
\* getVideoEncoderConfigurationOptions sends (the former without the
\* ProfileToken): the tokens of this.current_profile
FallbackParams(cur, list) ==
    [ConfigurationToken |-> list[cur].video_encoder,
     ProfileToken |-> list[cur].token]

\* C33: within one getCameraCapabilities() call, when the task of profile
\* index i takes the fallback path of getVideoEncoderConfiguration(i) or of
\* getVideoEncoderConfigurationOptions(i), the encoder token and the
\* profile token it sends are those of profile i, whatever the order in
\* which the steps of the tasks come.
C33_FallbackSendsOwnTokens ==
    [][\A i \in 1..(MaxProfiles + 1) :
           (/\ calls["A"].inst.op = "getCameraCapabilities"
            /\ i <= Len(calls["A"].tasks)
            /\ i <= Len(calls'["A"].tasks)
            /\ calls["A"].tasks[i].inst.pc # "fallback"
            /\ calls'["A"].tasks[i].inst.pc = "fallback")
           => FallbackParams(current_profile, profile_list) =
                  [ConfigurationToken |-> profile_list[i].video_encoder,
                   ProfileToken |-> profile_list[i].token]]_vars


\* C34: for a service operation called with a callback, the callback is
\* invoked exactly once per call, with a result or with an error, also when
\* the callback throws while it handles the result.
C34_CallbackOnce ==
    (soap.pc = "settled" /\ soap.handlers = "done") =>
        Len(soap.callbacks) = 1


\* ------------------------------------------------------------------------
\* init() while the client calls the scoped operations and changeProfile
\* ------------------------------------------------------------------------
\* the profileIndex argument of a call: omitted, a string, NaN, or a number,
\* which is given in halves (1 is 0.5, 2 is 1, -2 is -1)
IndexArguments ==
    [kind : {"undefined", "string", "NaN"}, halves : {0}]
        \cup [kind : {"number"}, halves : (-2)..(2 * MaxProfiles + 1)]

\* the synchronous part of getImagingSettings(profileIndex) and of
\* getVideoEncoderConfiguration(profileIndex), for any argument
StartScopedWith(op, arg, cur, list, svc) ==
    LET invalid ==
            [inst |-> NoInst, cur |-> cur, res |-> "rejected", val |-> "index"]
        \* a number that passed the test and is no whole number:
        \* changeProfile(profileIndex) returns null and changes nothing, and
        \* profiles[profileIndex] || profiles[0] is the first profile
        unchanged ==
            IF ~svc[ServiceOf(op)]
            THEN Settles(cur, cur, "rejected", "unsupported")
            ELSE Goes([op |-> op, pc |-> "cam", idx |-> 0, orig |-> cur,
                       inner |-> 0, failed |-> {}], cur)
    IN  CASE arg.kind = "undefined" ->
                 \* if (profileIndex === undefined) profileIndex = 0
                 StartScoped(op, 0, TRUE, cur, list, svc)
          [] arg.kind = "string" -> invalid
          [] arg.kind = "NaN" ->
                 \* typeof NaN is 'number', NaN < 0 and NaN >= length are
                 \* false
                 unchanged
          [] OTHER ->
                 IF arg.halves < 0 \/ arg.halves >= 2 * Len(list)
                 THEN invalid
                 ELSE IF arg.halves % 2 = 0
                 THEN StartScoped(op, arg.halves \div 2, TRUE, cur, list, svc)
                 ELSE unchanged

\* caller c calls op(profileIndex) with any argument
CallScopedWith(c, op, arg) ==
    /\ ~InFlight(c)
    /\ LET r == StartScopedWith(op, arg, current_profile, profile_list,
                                services)
       IN  /\ current_profile' = r.cur
           /\ calls' = [calls EXCEPT ![c] =
                            [After(c, r) EXCEPT !.atCall =
                                 IF r.res = "pending" THEN current_profile
                                 ELSE 0]]
           /\ last' = Outcome(r, op, 0, current_profile)
           /\ obs' = [NoObs EXCEPT !.op = op, !.res = r.res,
                                   !.seen = current_profile,
                                   !.ret = <<arg>>]
    /\ UNCHANGED <<keepAddr, time_diff, information, services, profile_list,
                   ptz_moving, initVars, selected>>

\* one init() from the constructor; at any time of it, and after it, the
\* client task "A" calls scoped operations and changeProfile and
\* fetchSnapshot are called;
\* getCameraCapabilities is called while no profile is listed, where it
\* remembers null as the profile to restore (SpecSession has it on sessions
\* with profiles).  The responses that do not bear on the profiles
\* are one of each kind: the device does not tell its time, names its
\* manufacturer and answers every GetStreamUri; its capabilities fail or
\* carry the media service and the ptz or the imaging service.
NextLife ==
    \/ runs = 0 /\ InitCall
    \/ \E resp \in {r \in TimeResponses : r.error} :
           GetSystemDateAndTimeDone(resp)
    \/ \E resp \in {r \in CapabilitiesResponses :
                       \/ r.kind = "error"
                       \/ r.XAddr \in {{"media", "ptz"},
                                       {"media", "imaging", "events"}}} :
           GetCapabilitiesDone(resp)
    \/ \E resp \in {r \in InformationResponses : ~r.error} :
           GetDeviceInformationDone(resp)
    \/ \E resp \in ProfilesResponses(deviceProfiles) : GetProfilesDone(resp)
    \/ GetStreamUriDone("ok")
    \/ /\ \E op \in {"getImagingSettings", "getVideoEncoderConfiguration"} :
              \E idx \in Indexes : CallScoped("A", op, idx, TRUE)
       /\ UNCHANGED <<busy, soap, snap, auth>>
    \/ /\ \E op \in {"getImagingSettings", "getVideoEncoderConfiguration"} :
              \E arg \in IndexArguments : CallScopedWith("A", op, arg)
       /\ UNCHANGED <<busy, soap, snap, auth>>
    \/ /\ profile_list = <<>>
       /\ getCameraCapabilities("A")
       /\ UNCHANGED <<busy, soap, snap, auth>>
    \/ /\ \E resp \in CamResponses : getProfilesFromDeviceDone("A", resp)
       /\ UNCHANGED <<busy, soap, snap, auth>>
    \/ /\ \E resp \in CommandResponses : CommandDone("A", resp)
       /\ UNCHANGED <<busy, soap, snap, auth>>
    \/ /\ \E index \in Indexes : changeProfile(index)
       /\ UNCHANGED <<busy, soap, snap, auth>>
    \/ fetchSnapshot /\ UNCHANGED <<busy, soap, snap, auth>>

SpecLife == Init /\ [][NextLife]_vars

\* C35: in every reachable state the current profile is null or an entry of
\* the profile list, and it is not null when the profile list is not empty.
C35_CurrentProfileIsListed ==
    /\ current_profile \in 0..Len(profile_list)
    /\ profile_list # <<>> => current_profile # 0

\* C36: a scoped operation rejects with 'Invalid profile index', without
\* changing the current profile and without sending a request, whenever its
\* profileIndex is not a whole number that indexes the profile list (not a
\* number, negative, fractional, or not below the length of the list); an
\* omitted profileIndex means index 0.
C36_InvalidIndexRejects ==
    [][(/\ ~InFlight("A")
        /\ <<calls, last, obs>>' # <<calls, last, obs>>
        /\ obs'.op \in ScopedOps
        /\ obs'.ret # <<>>) =>
           LET arg == obs'.ret[1]
               index == IF arg.kind = "undefined" THEN 0
                        ELSE arg.halves \div 2
               valid == /\ arg.kind \in {"undefined", "number"}
                        /\ arg.halves % 2 = 0
                        /\ index >= 0
                        /\ index < Len(profile_list)
           IN  /\ ~valid =>
                      /\ obs'.res = "rejected"
                      /\ last'.err = "index"
                      /\ current_profile' = current_profile
                      /\ calls'["A"] = NoCall
               /\ (valid /\ obs'.res = "pending") =>
                      /\ calls'["A"].inst.idx = index
                      /\ current_profile' = index + 1]_vars


\* C37: init() never writes the snapshot URI of a profile: after a
\* successful init() the snapshot field of every profile is empty, and
\* fetchSnapshot() rejects without sending an HTTP request (the snapshot
\* URIs are resolved by a separate call, which this specification does not
\* make).
C37_InitLeavesSnapshotsEmpty ==
    /\ \A i \in 1..Len(profile_list) : profile_list[i].snapshot = EmptyUri
    /\ obs.op = "fetchSnapshot" => obs.res = "rejected" /\ obs.cmds = <<>>

\* fetchSnapshot() was called after init() had resolved with two profiles
\* and their stream URIs
C37_Witness ==
    /\ ini.pc = "resolved"
    /\ Len(profile_list) = 2
    /\ profile_list[2].stream["rtsp"] # EmptyUri
    /\ current_profile # 0
    /\ obs.op = "fetchSnapshot"
    /\ obs.res = "rejected"


\* ------------------------------------------------------------------------
\* Credentials: setAuth(user, pass) of the session, and init()
\* ------------------------------------------------------------------------
\* OnvifDevice.prototype.setAuth: this.user, this.pass, and setAuth(user,
\* pass) of every service that is not null
SetAuth(a, svc, user, pass) ==
    [user |-> OrEmpty(user), pass |-> OrEmpty(pass),
     held |-> [k \in ServiceNames |->
                  IF svc[k] THEN <<Credentials(user, pass)>> ELSE a.held[k]]]

\* setAuth(user, pass) is called on the session
OnvifDeviceSetAuth(user, pass) ==
    /\ auth' = SetAuth(auth, services, user, pass)
    /\ UNCHANGED <<sessVars, initVars, calls, last, obs, selected, busy,
                   soap, snap>>

\* a session constructed with or without user and pass
InitAuth ==
    /\ OnvifDevice
    /\ calls = [c \in Callers |-> NoCall]
    /\ last = NoEvent
    /\ obs = NoObs
    /\ busy = NotBusy
    /\ soap = NoSoap
    /\ snap = NoSnap
    /\ \E user \in {"", "admin"} : \E pass \in {"", "secret"} :
           auth = [NoAuth EXCEPT !.user = user, !.pass = pass]
    /\ selected = 0
    /\ ini = IdleRun
    /\ runs = 0
    /\ wire = <<>>
    /\ sent = <<>>
    /\ streamFaults = 0
    /\ deviceProfiles = 1

\* init() any number of times, with setAuth(user, pass) called at any point;
\* the device does not tell its time, names its manufacturer and answers
\* every GetStreamUri
NextAuth ==
    \/ InitCall
    \/ \E resp \in {r \in TimeResponses : r.error} :
           GetSystemDateAndTimeDone(resp)
    \/ \E resp \in CapabilitiesResponses : GetCapabilitiesDone(resp)
    \/ \E resp \in {r \in InformationResponses : ~r.error} :
           GetDeviceInformationDone(resp)
    \/ \E resp \in ProfilesResponses(deviceProfiles) : GetProfilesDone(resp)
    \/ GetStreamUriDone("ok")
    \/ \E user \in Users : \E pass \in Passwords :
           OnvifDeviceSetAuth(user, pass)

SpecAuth == InitAuth /\ [][NextAuth]_vars

\* C38: in every reachable state every service of the session that is not
\* null holds the user and the password of the session: setAuth(user, pass)
\* updates the session and every such service, and the services that a
\* later init() constructs get the credentials the session has then.
C38_ServicesHoldSessionCredentials ==
    \A k \in ServiceNames :
        IF services[k]
        THEN auth.held[k] = <<[user |-> auth.user, pass |-> auth.pass]>>
        ELSE auth.held[k] = <<>>

\* setAuth was called between two init() calls: the media service, which
\* the first one constructed, and the ptz service, which only the second
\* one constructed, both hold the new credentials
C38_Witness ==
    /\ runs = 2
    /\ ini.pc = "resolved"
    /\ auth.user = "admin"
    /\ auth.pass = "secret"
    /\ auth.held["media"] = <<[user |-> "admin", pass |-> "secret"]>>
    /\ auth.held["ptz"] = <<[user |-> "admin", pass |-> "secret"]>>
    /\ auth.held["imaging"] = <<>>



\* ------------------------------------------------------------------------
\* setVideoEncoderConfiguration(params) of the Media service

\* the encodings and the H264 profiles the method names in its errors
VideoEncodings == {"JPEG", "MPEG4", "H264"}
H264Profiles == {"Baseline", "Main", "Extended", "High"}

\* the arguments of the method: a property is <<>> when it is absent and
\* <<v>> when it is given; H264Profile stands for params.H264.H264Profile
EncoderParams ==
    {[type |-> "undefined", ConfigurationToken |-> <<>>,
      Encoding |-> <<>>, H264Profile |-> <<>>]}
    \cup [type : {"object"},
          ConfigurationToken : {<<>>, <<"">>, <<"enc0">>, <<"<enc0>">>},
          Encoding : {<<>>, <<"">>, <<"JPEG">>, <<"H264">>, <<"VP9">>},
          H264Profile : {<<>>, <<"">>, <<"High">>, <<"Bogus">>}]

\* what the device answers to GetVideoEncoderConfiguration: an error, a
\* response without a Configuration, or a Configuration with its Encoding
EncoderAnswers ==
    [kind : {"error", "empty"}, Encoding : {""}]
    \cup [kind : {"Configuration"}, Encoding : {"", "JPEG", "H264"}]

\* the checks made before the query: "reject" without a request, or "get"
EncoderQuery(params) ==
    IF params.type # "object" THEN "reject"
    ELSE IF params.ConfigurationToken \in {<<>>, <<"">>} THEN "reject"
    \* isInvalidValue(ConfigurationToken, 'string') in the query itself
    ELSE IF params.ConfigurationToken # <<"enc0">> THEN "reject"
    ELSE "get"

\* the handler of the query's result: it throws without a Configuration,
\* rejects and returns on an Encoding or H264Profile it does not know, and
\* otherwise sends the merged configuration
MergeConfiguration(params, answer) ==
    LET given(p) == p # <<>> /\ p # <<"">>
    IN  IF answer.kind # "Configuration" THEN "throw"
        ELSE IF given(params.Encoding)
                /\ params.Encoding[1] \notin VideoEncodings
        THEN "reject"
        ELSE IF /\ \/ params.Encoding = <<"H264">>
                   \/ answer.Encoding = "H264"
                /\ given(params.H264Profile)
                /\ params.H264Profile[1] \notin H264Profiles
        THEN "reject"
        ELSE "send"

\* services['media'].setVideoEncoderConfiguration(params), up to its
\* first request
SetVideoEncoderConfiguration(params) ==
    /\ obs.op = "none"
    /\ services["media"]
    /\ obs' = [NoObs EXCEPT
                  !.op = "setVideoEncoderConfiguration",
                  !.res = IF EncoderQuery(params) = "get"
                          THEN "get" ELSE "rejected",
                  !.ret = <<params>>]
    /\ sent' = IF EncoderQuery(params) = "get"
               THEN Append(sent, Req("GetVideoEncoderConfiguration"))
               ELSE sent
    /\ UNCHANGED <<sessVars, deviceProfiles, ini, runs, wire, streamFaults,
                   calls, last, selected, busy, soap, snap, auth>>

\* the query settles
GetVideoEncoderConfigurationSettles(answer) ==
    /\ obs.op = "setVideoEncoderConfiguration"
    /\ obs.res = "get"
    /\ LET step == IF answer.kind = "error" THEN "throw"
                   ELSE MergeConfiguration(obs.ret[1], answer)
       IN  /\ obs' = [obs EXCEPT
                         !.res = IF step = "send" THEN "set" ELSE "rejected",
                         !.ret = <<obs.ret[1], answer>>]
           /\ sent' = IF step = "send"
                      THEN Append(sent, Req("SetVideoEncoderConfiguration"))
                      ELSE sent
    /\ UNCHANGED <<sessVars, deviceProfiles, ini, runs, wire, streamFaults,
                   calls, last, selected, busy, soap, snap, auth>>

\* the SetVideoEncoderConfiguration command settles
SetVideoEncoderConfigurationSettles(ok) ==
    /\ obs.op = "setVideoEncoderConfiguration"
    /\ obs.res = "set"
    /\ obs' = [obs EXCEPT !.res = IF ok THEN "resolved" ELSE "rejected"]
    /\ UNCHANGED <<sessVars, initVars, calls, last, selected, busy, soap,
                   snap, auth>>

\* a session whose Media service exists, with no request made
InitEncoder ==
    /\ InitSoap
    /\ time_diff = 0

NextEncoder ==
    \/ \E params \in EncoderParams : SetVideoEncoderConfiguration(params)
    \/ \E answer \in EncoderAnswers :
           GetVideoEncoderConfigurationSettles(answer)
    \/ \E ok \in BOOLEAN : SetVideoEncoderConfigurationSettles(ok)

SpecEncoder == InitEncoder /\ [][NextEncoder]_vars

\* C39: setVideoEncoderConfiguration sends GetVideoEncoderConfiguration
\* first and SetVideoEncoderConfiguration only after that query succeeded
\* with a Configuration; with a missing ConfigurationToken no request at
\* all is sent; with an Encoding outside {JPEG, MPEG4, H264} or an
\* H264Profile outside {Baseline, Main, Extended, High} the call rejects
\* and no SetVideoEncoderConfiguration command is ever sent.
C39_SetAfterGetAndValidated ==
    obs.op = "setVideoEncoderConfiguration" =>
        LET params == obs.ret[1]
            Get == Req("GetVideoEncoderConfiguration")
            Set == Req("SetVideoEncoderConfiguration")
            \* a property that is absent or the empty string counts as not
            \* given
            outside(p, S) == p \notin {<<>>, <<"">>} /\ p[1] \notin S
        IN  /\ sent \in {<<>>, <<Get>>, <<Get, Set>>}
            /\ Len(sent) = 2 =>
                   /\ Len(obs.ret) = 2
                   /\ obs.ret[2].kind = "Configuration"
            /\ params.ConfigurationToken = <<>> =>
                   /\ sent = <<>>
                   /\ obs.res = "rejected"
            /\ \/ outside(params.Encoding, VideoEncodings)
               \/ outside(params.H264Profile, H264Profiles)
               => /\ Len(sent) < 2
                  /\ obs.res \in {"get", "rejected"}
                  /\ Len(obs.ret) = 2 => obs.res = "rejected"

====
